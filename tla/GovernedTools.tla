----------------------------- MODULE GovernedTools ----------------------------
(***************************************************************************)
(* The file tools at work: GovernedToolHandler checks where a path leads,  *)
(* and then opens it one component at a time, each relative to the         *)
(* descriptor of the one before, making the directories a write misses.    *)
(* Each system call is a step.  Two processes serve the same workspace,    *)
(* and other programs change it at any moment: what the check saw may be   *)
(* gone when the walk gets there.                                          *)
(*                                                                         *)
(* All calls name the same path: Depth directories and a leaf.  A node is  *)
(* an inode; a directory has one entry that matters, the next name of the  *)
(* path.  Root is the workspace, Out a directory outside it, where every   *)
(* symbolic link leads.  What the files hold is left out; a write is of a  *)
(* text within the limit, and the disk has room for it.                    *)
(***************************************************************************)
EXTENDS Naturals, FiniteSets

CONSTANTS Servers,      \* processes with a handler: the API and the MCP server
          Depth,        \* directories on the path, above its leaf
          MaxNode,      \* inodes that can ever be made in the workspace
          MaxCalls,     \* calls of each server
          MaxChanges    \* changes that other programs make to the workspace

ASSUME GovernedToolsAssumption ==
    /\ Depth \in Nat \ {0}
    /\ MaxNode \in Nat /\ MaxNode > Depth
    /\ MaxCalls \in Nat
    /\ MaxChanges \in Nat

VARIABLES kind,     \* what each inode is
          entry,    \* the entry of the path's next name in a directory
          walk,     \* the walk each server is at
          held,     \* the descriptors its present or last call has open: 0 is the
                    \* root's, n that of the path's n-th component
          calls,    \* calls each server has begun
          changes   \* changes made by other programs

toolVars == <<kind, entry, walk, held, calls, changes>>

Root == 0
Inside == 1..MaxNode
Out == MaxNode + 1       \* a directory outside the workspace
OutFile == MaxNode + 2   \* what it holds
Nodes == 0..MaxNode + 2
Nothing == MaxNode + 3   \* no entry of that name
Link == MaxNode + 4      \* a symbolic link, to Out or to OutFile

Leaf == Depth + 1
Over(op, at, end) == [op |-> op, step |-> "idle", at |-> at, dir |-> Root, end |-> end]
Idle == Over("none", 0, "none")

Walks == [op : {"none", "read", "write"},
          step : {"idle", "open", "make", "reopen", "use"},
          at : 0..Leaf, dir : Nodes,
          end : {"none", "ok", "denied", "failed", "unreadable"}]

ToolsTypeOK ==
    /\ kind \in [Nodes -> {"unused", "dir", "file", "removed"}]
    /\ entry \in [Nodes -> Nodes \union {Nothing, Link}]
    /\ walk \in [Servers -> Walks]
    /\ held \in [Servers -> SUBSET (0..Leaf)]
    /\ calls \in [Servers -> 0..MaxCalls]
    /\ changes \in 0..MaxChanges

\* The path exists down to some directory, and ends there in one of these ways.
ToolsInit ==
    \E n \in 0..Depth, last \in {"nothing", "link", "file", "dir"} :
        /\ last = "dir" => n = Depth
        /\ kind = [x \in Nodes |->
                      IF x <= n \/ x = Out THEN "dir"
                      ELSE IF x = OutFile THEN "file"
                      ELSE IF x = n + 1 /\ last \in {"file", "dir"} THEN last ELSE "unused"]
        /\ entry = [x \in Nodes |->
                      IF x < n THEN x + 1
                      ELSE IF x = n /\ last = "link" THEN Link
                      ELSE IF x = n /\ last \in {"file", "dir"} THEN n + 1
                      ELSE IF x = Out THEN OutFile
                      ELSE Nothing]
        /\ walk = [s \in Servers |-> Idle]
        /\ held = [s \in Servers |-> {}]
        /\ calls = [s \in Servers |-> 0]
        /\ changes = 0

-----------------------------------------------------------------------------
\* The system calls.

Unused == {x \in Inside : kind[x] = "unused"}
Fresh == CHOOSE x \in Unused : TRUE

\* openat with O_NOFOLLOW, and without: the node opened, or Nothing or Link as the error.
Follow(dir, name) ==
    IF entry[dir] = Link THEN (IF name = Leaf THEN OutFile ELSE Out) ELSE entry[dir]
OpenAt(dir, name) == entry[dir]

\* A directory is opened, and the one before it closed, unless that is the root.
LeaveOpen(s, node) ==
    /\ walk' = [walk EXCEPT ![s].at = @ + 1, ![s].dir = node, ![s].step = "open"]
    /\ held' = [held EXCEPT ![s] = @ \union {walk[s].at}]
EnterDirectory(s, node) ==
    /\ walk' = [walk EXCEPT ![s].at = @ + 1, ![s].dir = node, ![s].step = "open"]
    /\ held' = [held EXCEPT ![s] = (@ \ ({walk[s].at - 1} \ {0})) \union {walk[s].at}]

\* The call ends: what the exit paths close is closed, the answer is given.
End(s, end, closed) ==
    /\ walk' = [walk EXCEPT ![s] = Over(walk[s].op, walk[s].at, end)]
    /\ held' = [held EXCEPT ![s] = @ \ closed]

-----------------------------------------------------------------------------
\* What each name of the path stands for now.
OnPath ==
    LET on[n \in 0..Leaf] == IF n = 0 THEN Root
                             ELSE IF on[n - 1] \in {Nothing, Link} THEN on[n - 1]
                             ELSE entry[on[n - 1]]
    IN  on

\* _resolve: a path that leads through a link leads out of the workspace.
Escapes == OnPath[Leaf] = Link

Resolve(s, op) ==
    /\ walk[s].step = "idle" /\ calls[s] < MaxCalls
    /\ calls' = [calls EXCEPT ![s] = @ + 1]
    /\ IF Escapes
       THEN /\ walk' = [walk EXCEPT ![s] = Over(op, 0, "denied")]
            /\ held' = [held EXCEPT ![s] = {}]
       ELSE /\ walk' = [walk EXCEPT ![s] = [op |-> op, step |-> "open", at |-> 1,
                                            dir |-> Root, end |-> "none"]]
            /\ held' = [held EXCEPT ![s] = {0}]
    /\ UNCHANGED <<kind, entry, changes>>

\* Every name but the last is a directory's.
IsAnyName(n) == n <= Leaf
IsDirectoryName(n) == n <= Depth

\* The loop over the directories: os.open of the next one.  Only the root's
\* descriptor is closed when it fails.
OpenDirectory(s) ==
    LET next == OpenAt(walk[s].dir, walk[s].at)
    IN  /\ walk[s].step = "open" /\ IsDirectoryName(walk[s].at)
        /\ \/ /\ next = Nothing /\ walk[s].op = "write"
              /\ walk' = [walk EXCEPT ![s].step = "make"]
              /\ UNCHANGED held
           \/ next = Nothing /\ walk[s].op = "read" /\ End(s, "failed", {0})
           \/ next = Link /\ End(s, "denied", {0})
           \/ next \in Nodes /\ kind[next] = "file" /\ End(s, "denied", {0})
           \/ next \in Nodes /\ kind[next] = "dir" /\ EnterDirectory(s, next)
        /\ UNCHANGED <<kind, entry, calls, changes>>

\* os.mkdir: an entry that has appeared meanwhile will be opened, whoever made it.
FailIfMade(s) ==
    LET dir == walk[s].dir
    IN  /\ walk[s].step = "make"
        /\ \/ /\ (kind[dir] = "removed" \/ entry[dir] # Nothing)
              /\ End(s, "failed", {0})
              /\ UNCHANGED <<kind, entry>>
           \/ /\ kind[dir] = "dir" /\ entry[dir] = Nothing
              /\ Unused # {}
              /\ kind' = [kind EXCEPT ![Fresh] = "dir"]
              /\ entry' = [entry EXCEPT ![dir] = Fresh]
              /\ walk' = [walk EXCEPT ![s].step = "reopen"]
              /\ UNCHANGED held
        /\ UNCHANGED <<calls, changes>>
MakeDirectory(s) ==
    LET dir == walk[s].dir
    IN  /\ walk[s].step = "make"
        /\ \/ /\ kind[dir] = "removed"
              /\ End(s, "failed", {0})
              /\ UNCHANGED <<kind, entry>>
           \/ /\ entry[dir] # Nothing
              /\ walk' = [walk EXCEPT ![s].step = "reopen"]
              /\ UNCHANGED <<kind, entry, held>>
           \/ /\ kind[dir] = "dir" /\ entry[dir] = Nothing
              /\ Unused # {}
              /\ kind' = [kind EXCEPT ![Fresh] = "dir"]
              /\ entry' = [entry EXCEPT ![dir] = Fresh]
              /\ walk' = [walk EXCEPT ![s].step = "reopen"]
              /\ UNCHANGED held
        /\ UNCHANGED <<calls, changes>>

\* The second os.open stands in the handler of the first one's error: whatever it
\* raises ends the call.
ReopenDirectory(s) ==
    LET next == OpenAt(walk[s].dir, walk[s].at)
    IN  /\ walk[s].step = "reopen"
        /\ IF next \in Nodes /\ kind[next] = "dir"
           THEN EnterDirectory(s, next)
           ELSE End(s, "failed", {0})
        /\ UNCHANGED <<kind, entry, calls, changes>>

\* os.open of the leaf: reading opens a directory too, writing creates the file.
\* The last directory and the root are closed either way.
OpenLeaf(s) ==
    LET dir == walk[s].dir
        next == OpenAt(dir, Leaf)
        Opened(node) == /\ walk' = [walk EXCEPT ![s].step = "use", ![s].dir = node]
                        /\ held' = [held EXCEPT ![s] = (@ \ {0, Depth}) \union {Leaf}]
    IN  /\ walk[s].step = "open" /\ ~IsDirectoryName(walk[s].at)
        /\ \/ /\ next \in Nodes /\ (kind[next] = "file" \/ walk[s].op = "read")
              /\ Opened(next)
              /\ UNCHANGED <<kind, entry>>
           \/ /\ next \in Nodes /\ kind[next] = "dir" /\ walk[s].op = "write"
              /\ End(s, "failed", {0, Depth})
              /\ UNCHANGED <<kind, entry>>
           \/ /\ next = Link
              /\ End(s, "denied", {0, Depth})
              /\ UNCHANGED <<kind, entry>>
           \/ /\ next = Nothing /\ (walk[s].op = "read" \/ kind[dir] = "removed")
              /\ End(s, "failed", {0, Depth})
              /\ UNCHANGED <<kind, entry>>
           \/ /\ next = Nothing /\ walk[s].op = "write" /\ kind[dir] = "dir"
              /\ Unused # {}
              /\ kind' = [kind EXCEPT ![Fresh] = "file"]
              /\ entry' = [entry EXCEPT ![dir] = Fresh]
              /\ Opened(Fresh)
        /\ UNCHANGED <<calls, changes>>

\* os.fdopen, the read or the write, and the close; a file too large to read is closed
\* too.  fdopen refuses a directory and leaves the descriptor it was given open.
UseLeaf(s) ==
    /\ walk[s].step = "use"
    /\ \/ kind[walk[s].dir] = "file" /\ End(s, "ok", {Leaf})
       \/ kind[walk[s].dir] = "file" /\ walk[s].op = "read" /\ End(s, "failed", {Leaf})
       \/ kind[walk[s].dir] # "file" /\ End(s, "unreadable", {})
    /\ UNCHANGED <<kind, entry, calls, changes>>

-----------------------------------------------------------------------------
\* Other programs.  A node whose entry is gone lives on for whoever has it open; an
\* empty directory that is removed takes no new entries.

Meddles == changes < MaxChanges /\ changes' = changes + 1 /\ UNCHANGED <<walk, held, calls>>

MoveAway(dir) ==
    /\ Meddles
    /\ entry[dir] # Nothing
    /\ entry' = [entry EXCEPT ![dir] = Nothing]
    /\ UNCHANGED kind

RemoveDirectory(dir) ==
    /\ Meddles
    /\ entry[dir] \in Nodes /\ kind[entry[dir]] = "dir" /\ entry[entry[dir]] = Nothing
    /\ kind' = [kind EXCEPT ![entry[dir]] = "removed"]
    /\ entry' = [entry EXCEPT ![dir] = Nothing]

PutLink(dir) ==
    /\ Meddles
    /\ kind[dir] = "dir" /\ entry[dir] = Nothing
    /\ entry' = [entry EXCEPT ![dir] = Link]
    /\ UNCHANGED kind

PutNode(dir, what) ==
    /\ Meddles
    /\ kind[dir] = "dir" /\ entry[dir] = Nothing /\ Unused # {}
    /\ kind' = [kind EXCEPT ![Fresh] = what]
    /\ entry' = [entry EXCEPT ![dir] = Fresh]

ToolsNext ==
    \/ \E s \in Servers :
           \/ \E op \in {"read", "write"} : Resolve(s, op)
           \/ OpenDirectory(s)
           \/ MakeDirectory(s)
           \/ ReopenDirectory(s)
           \/ OpenLeaf(s)
           \/ UseLeaf(s)
    \/ \E dir \in 0..MaxNode :
           \/ MoveAway(dir)
           \/ RemoveDirectory(dir)
           \/ PutLink(dir)
           \/ \E what \in {"dir", "file"} : PutNode(dir, what)

ToolsSpec == ToolsInit /\ [][ToolsNext]_toolVars

-----------------------------------------------------------------------------
\* A walk stays inside the workspace's own inodes, however directories are replaced
\* under it between the check and each of its steps (tool_provider.py:15-28).
NeverOutside == \A s \in Servers : walk[s].dir \in {Root} \union Inside

\* Nobody else has touched the path, and nothing on it stands in a write's way.
LeftAlone ==
    /\ changes = 0
    /\ \A n \in 1..Leaf : \/ OnPath[n] = Nothing
                         \/ /\ OnPath[n] \in Nodes
                            /\ kind[OnPath[n]] = IF n = Leaf THEN "file" ELSE "dir"

\* The servers' own races are benign: two of them may make the same directories at
\* once, and no write fails by it (tool_provider.py:113-115).
CreationRaceIsBenign ==
    LeftAlone => \A s \in Servers : walk[s].op = "write" => walk[s].end \in {"none", "ok"}

\* Descriptors: a call that succeeds leaves none open.  One that fails leaves at most
\* one, and only where it failed in a directory below the first, or read a directory.
LeavesOpen ==
    \A s \in Servers : walk[s].step = "idle" =>
        held[s] = IF walk[s].end = "unreadable" THEN {Leaf}
                  ELSE IF walk[s].end \in {"denied", "failed"} /\ walk[s].at \in 2..Depth
                       THEN {walk[s].at - 1}
                  ELSE {}
=============================================================================
