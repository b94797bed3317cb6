------------------------- MODULE GovernedTools_proofs -------------------------
(***************************************************************************)
(* Proofs about GovernedTools, for every number of servers, every depth of *)
(* the path and any number of changes by other programs.                   *)
(***************************************************************************)
EXTENDS GovernedTools, WellFoundedInduction, TLAPS

-----------------------------------------------------------------------------
\* The inductive invariant.

\* A directory of the workspace never has an inode outside it as its entry: the only
\* way out is a symbolic link.
EntriesInside == \A x \in 0..MaxNode : entry[x] \in Inside \union {Nothing, Link}

\* A walk and the descriptors open for it, at each step of the call.
WalkHolds(w, h) ==
    /\ w.dir \in 0..MaxNode
    /\ w.step = "open" => w.at \in 1..Leaf /\ h = {0, w.at - 1}
    /\ w.step \in {"make", "reopen"} => w.at \in 1..Depth /\ h = {0, w.at - 1}
    /\ w.step = "use" => w.at = Leaf /\ h = {Leaf}
    /\ w.step = "idle" => h = IF w.end = "unreadable" THEN {Leaf}
                              ELSE IF w.end \in {"denied", "failed"} /\ w.at \in 2..Depth
                                   THEN {w.at - 1}
                              ELSE {}

WalksHold == \A s \in Servers : WalkHolds(walk[s], held[s])

ToolsInv == ToolsTypeOK /\ EntriesInside /\ WalksHold

-----------------------------------------------------------------------------
\* Inodes, names and descriptors.

LEMMA NodeFacts ==
    /\ 0..MaxNode = {Root} \union Inside
    /\ 0..MaxNode \subseteq Nodes
    /\ Out \notin 0..MaxNode /\ OutFile \notin 0..MaxNode
    /\ Nothing \notin Nodes /\ Link \notin Nodes /\ Nothing # Link
  BY GovernedToolsAssumption DEF Root, Inside, Nodes, Out, OutFile, Nothing, Link

LEMMA NameFacts ==
    /\ Depth \in Nat \ {0} /\ Leaf = Depth + 1 /\ Depth < MaxNode
    /\ Leaf \in 0..Leaf /\ 1 \in 1..Leaf /\ 0 \in 0..Leaf
    /\ 1..Depth \subseteq 0..Leaf /\ 1..Leaf \subseteq 0..Leaf
  BY GovernedToolsAssumption DEF Leaf

\* A new inode is one of the workspace's.
LEMMA FreshInside ==
    ASSUME Unused # {}
    PROVE  Fresh \in Inside /\ kind[Fresh] = "unused"
<1>1. Fresh \in Unused
  BY DEF Fresh
<1> QED
  BY <1>1 DEF Unused

\* What opening a name relative to a directory of the workspace gives is inside it.
LEMMA OpenedInside ==
    ASSUME EntriesInside, NEW dir \in 0..MaxNode, NEW name, OpenAt(dir, name) \in Nodes
    PROVE  OpenAt(dir, name) \in Inside
  BY NodeFacts DEF EntriesInside, OpenAt

\* Closing the root's descriptor leaves that of the directory the call was in.
LEMMA CloseRoot ==
    ASSUME NEW n \in 1..Leaf
    PROVE  /\ {0, n - 1} \ {0} = (IF n = 1 THEN {} ELSE {n - 1})
           /\ ({0, n - 1} \ ({n - 1} \ {0})) \union {n} = {0, n}
           /\ n = Leaf => {0, n - 1} \ {0, Depth} = {}
  BY NameFacts

-----------------------------------------------------------------------------
\* The steps of a call.

\* Only one server's walk moves, to one its descriptors fit.
Moves(s) ==
    \E w \in Walks, h \in SUBSET (0..Leaf) :
        /\ WalkHolds(w, h)
        /\ walk' = [walk EXCEPT ![s] = w]
        /\ held' = [held EXCEPT ![s] = h]

LEMMA MovesHold ==
    ASSUME ToolsInv, NEW s \in Servers, Moves(s), EntriesInside',
           kind' \in [Nodes -> {"unused", "dir", "file", "removed"}],
           entry' \in [Nodes -> Nodes \union {Nothing, Link}],
           calls' \in [Servers -> 0..MaxCalls], UNCHANGED changes
    PROVE  ToolsInv'
<1>1. PICK w \in Walks, h \in SUBSET (0..Leaf) :
        /\ WalkHolds(w, h)
        /\ walk' = [walk EXCEPT ![s] = w]
        /\ held' = [held EXCEPT ![s] = h]
  BY DEF Moves
<1>2. walk' \in [Servers -> Walks] /\ held' \in [Servers -> SUBSET (0..Leaf)]
  BY <1>1 DEF ToolsInv, ToolsTypeOK
<1>3. \A t \in Servers : WalkHolds(walk'[t], held'[t])
  BY <1>1 DEF ToolsInv, ToolsTypeOK, WalksHold
<1>4. WalksHold'
  BY <1>3 DEF WalksHold, WalkHolds
<1>5. changes' \in 0..MaxChanges
  BY DEF ToolsInv, ToolsTypeOK
<1> QED
  BY <1>2, <1>4, <1>5 DEF ToolsInv, ToolsTypeOK

\* The part of a step that touches the inodes: none, or one made where none was.
Makes(dir, what) ==
    /\ kind' = [kind EXCEPT ![Fresh] = what]
    /\ entry' = [entry EXCEPT ![dir] = Fresh]

LEMMA MakesInside ==
    ASSUME ToolsInv, NEW dir \in 0..MaxNode, NEW what \in {"dir", "file"},
           Unused # {}, Makes(dir, what)
    PROVE  /\ EntriesInside'
           /\ kind' \in [Nodes -> {"unused", "dir", "file", "removed"}]
           /\ entry' \in [Nodes -> Nodes \union {Nothing, Link}]
<1>1. Fresh \in Inside /\ Fresh \in Nodes /\ dir \in Nodes
  BY FreshInside, NodeFacts
<1>2. entry \in [Nodes -> Nodes \union {Nothing, Link}]
      /\ kind \in [Nodes -> {"unused", "dir", "file", "removed"}]
  BY DEF ToolsInv, ToolsTypeOK
<1>3. \A x \in 0..MaxNode : entry'[x] \in Inside \union {Nothing, Link}
  BY <1>1, <1>2, NodeFacts DEF Makes, ToolsInv, EntriesInside
<1>4. EntriesInside'
  BY <1>3 DEF EntriesInside, Inside, Nothing, Link
<1> QED
  BY <1>1, <1>2, <1>4 DEF Makes

LEMMA NodesKept ==
    ASSUME ToolsInv, UNCHANGED <<kind, entry>>
    PROVE  /\ EntriesInside'
           /\ kind' \in [Nodes -> {"unused", "dir", "file", "removed"}]
           /\ entry' \in [Nodes -> Nodes \union {Nothing, Link}]
  BY DEF ToolsInv, ToolsTypeOK, EntriesInside, Inside, Nothing, Link

\* The walk of a server before the step.
LEMMA WalkFacts ==
    ASSUME ToolsInv, NEW s \in Servers
    PROVE  /\ walk[s] \in Walks /\ held[s] \in SUBSET (0..Leaf)
           /\ WalkHolds(walk[s], held[s])
           /\ walk \in [Servers -> Walks]
           /\ held \in [Servers -> SUBSET (0..Leaf)]
           /\ walk[s].at \in 0..Leaf /\ walk[s].dir \in 0..MaxNode
           /\ calls \in [Servers -> 0..MaxCalls]
  BY DEF ToolsInv, ToolsTypeOK, WalksHold, WalkHolds, Walks

\* A call that ends with the descriptors its exit path should leave.
LEMMA EndMoves ==
    ASSUME ToolsInv, NEW s \in Servers,
           NEW end \in {"ok", "denied", "failed", "unreadable"}, NEW closed,
           End(s, end, closed),
           held[s] \ closed =
               IF end = "unreadable" THEN {Leaf}
               ELSE IF end \in {"denied", "failed"} /\ walk[s].at \in 2..Depth
                    THEN {walk[s].at - 1}
               ELSE {}
    PROVE  Moves(s)
<1> DEFINE w == Over(walk[s].op, walk[s].at, end)
<1>1. walk[s] \in Walks /\ held[s] \in SUBSET (0..Leaf) /\ walk \in [Servers -> Walks]
      /\ held \in [Servers -> SUBSET (0..Leaf)]
  BY WalkFacts
<1>2. w \in Walks
  BY <1>1, NodeFacts DEF Over, Walks
<1>3. walk' = [walk EXCEPT ![s] = w]
  BY DEF End
<1>4. held' = [held EXCEPT ![s] = held[s] \ closed]
  BY <1>1 DEF End
<1>5. WalkHolds(w, held[s] \ closed)
  BY NodeFacts DEF Over, WalkHolds
<1>6. held[s] \ closed \in SUBSET (0..Leaf)
  BY <1>1
<1> HIDE DEF w
<1> QED
  BY <1>2, <1>3, <1>4, <1>5, <1>6 DEF Moves

\* A directory that is opened: the one before it is closed, unless that is the root.
LEMMA EnterMoves ==
    ASSUME ToolsInv, NEW s \in Servers, NEW node \in Inside, EnterDirectory(s, node),
           walk[s].step \in {"open", "reopen"}, walk[s].at \in 1..Depth
    PROVE  Moves(s)
<1> DEFINE n == walk[s].at
           w == [walk[s] EXCEPT !.at = n + 1, !.dir = node, !.step = "open"]
<1>1. walk[s] \in Walks /\ walk \in [Servers -> Walks]
      /\ held \in [Servers -> SUBSET (0..Leaf)] /\ WalkHolds(walk[s], held[s])
  BY WalkFacts
<1>2. n \in 1..Leaf /\ n + 1 \in 1..Leaf /\ n + 1 \in 0..Leaf /\ (n + 1) - 1 = n
      /\ n \in 0..Leaf
  BY NameFacts
<1>3. held[s] = {0, n - 1}
  BY <1>1 DEF WalkHolds
<1>4. walk' = [walk EXCEPT ![s] = w]
  BY <1>1 DEF EnterDirectory
<1>5. held' = [held EXCEPT ![s] = (held[s] \ ({n - 1} \ {0})) \union {n}]
  BY <1>1 DEF EnterDirectory
<1>6. (held[s] \ ({n - 1} \ {0})) \union {n} = {0, n}
  BY <1>2, <1>3, CloseRoot
<1>7. w \in Walks /\ w.at = n + 1 /\ w.dir = node /\ w.step = "open"
  BY <1>1, <1>2, NodeFacts DEF Walks
<1>8. {0, n} \in SUBSET (0..Leaf)
  BY <1>2, NameFacts
<1>9. WalkHolds(w, {0, n})
  BY <1>2, <1>7, NodeFacts DEF WalkHolds
<1> HIDE DEF n, w
<1> QED
  BY <1>4, <1>5, <1>6, <1>7, <1>8, <1>9 DEF Moves
-----------------------------------------------------------------------------
\* What a walk is at each step, taken apart.
LEMMA AtOpen ==
    ASSUME ToolsInv, NEW s \in Servers, walk[s].step \in {"open", "make", "reopen"}
    PROVE  /\ walk[s].at \in 1..Leaf /\ held[s] = {0, walk[s].at - 1}
           /\ walk[s].step # "open" => walk[s].at \in 1..Depth
           /\ walk[s].dir \in 0..MaxNode
<1>1. WalkHolds(walk[s], held[s])
  BY WalkFacts
<1> QED
  BY <1>1, NameFacts DEF WalkHolds

\* A failure in the loop over the directories closes the root's descriptor only.
LEMMA FailInLoop ==
    ASSUME ToolsInv, NEW s \in Servers, walk[s].step \in {"open", "make", "reopen"},
           walk[s].at \in 1..Depth, NEW end \in {"denied", "failed"}, End(s, end, {0})
    PROVE  Moves(s)
<1>1. held[s] = {0, walk[s].at - 1} /\ walk[s].at \in 1..Leaf
  BY AtOpen
<1>2. held[s] \ {0} = IF walk[s].at = 1 THEN {} ELSE {walk[s].at - 1}
  BY <1>1, CloseRoot
<1>3. walk[s].at \in 2..Depth <=> walk[s].at # 1
  BY NameFacts
<1> QED
  BY <1>2, <1>3, EndMoves

LEMMA ResolveInv ==
    ASSUME ToolsInv, NEW s \in Servers, NEW op \in {"read", "write"}, Resolve(s, op)
    PROVE  ToolsInv'
<1>1. walk \in [Servers -> Walks] /\ held \in [Servers -> SUBSET (0..Leaf)]
      /\ calls \in [Servers -> 0..MaxCalls]
  BY WalkFacts
<1>2. calls' \in [Servers -> 0..MaxCalls]
  BY <1>1, GovernedToolsAssumption DEF Resolve
<1>3. Moves(s)
  <2>1. CASE Escapes
    <3> DEFINE w == Over(op, 0, "denied")
    <3>2. walk' = [walk EXCEPT ![s] = w] /\ held' = [held EXCEPT ![s] = {}]
      BY <2>1 DEF Resolve
    <3>3. w \in Walks
      BY NameFacts, NodeFacts DEF Over, Walks
    <3>4. WalkHolds(w, {})
      BY NodeFacts, NameFacts DEF Over, WalkHolds
    <3> HIDE DEF w
    <3> QED
      BY <3>2, <3>3, <3>4 DEF Moves
  <2>2. CASE ~Escapes
    <3> DEFINE w == [op |-> op, step |-> "open", at |-> 1, dir |-> Root, end |-> "none"]
    <3>2. walk' = [walk EXCEPT ![s] = w] /\ held' = [held EXCEPT ![s] = {0}]
      BY <2>2 DEF Resolve
    <3>3. w \in Walks
      BY NameFacts, NodeFacts DEF Walks
    <3>4. WalkHolds(w, {0}) /\ {0} \in SUBSET (0..Leaf)
      BY NodeFacts, NameFacts DEF WalkHolds
    <3> HIDE DEF w
    <3> QED
      BY <3>2, <3>3, <3>4 DEF Moves
  <2> QED
    BY <2>1, <2>2
<1>4. UNCHANGED <<kind, entry, changes>>
  BY DEF Resolve
<1> QED
  BY <1>2, <1>3, <1>4, NodesKept, MovesHold

LEMMA OpenDirectoryInv ==
    ASSUME ToolsInv, NEW s \in Servers, OpenDirectory(s)
    PROVE  ToolsInv'
<1> DEFINE next == OpenAt(walk[s].dir, walk[s].at)
<1>1. UNCHANGED <<kind, entry, calls, changes>> /\ walk[s].step = "open"
      /\ walk[s].at <= Depth
  BY DEF OpenDirectory, IsDirectoryName
<1>2. walk[s].at \in 1..Depth /\ walk[s].dir \in 0..MaxNode
  BY <1>1, AtOpen, NameFacts
<1>3. ASSUME walk' = [walk EXCEPT ![s].step = "make"], UNCHANGED held
      PROVE  Moves(s)
  <2> DEFINE w == [walk[s] EXCEPT !.step = "make"]
  <2>1. walk[s] \in Walks /\ walk \in [Servers -> Walks] /\ held[s] \in SUBSET (0..Leaf)
        /\ held \in [Servers -> SUBSET (0..Leaf)] /\ WalkHolds(walk[s], held[s])
    BY WalkFacts
  <2>2. w \in Walks /\ w.step = "make" /\ w.at = walk[s].at /\ w.dir = walk[s].dir
    BY <2>1 DEF Walks
  <2>3. WalkHolds(w, held[s])
    BY <1>1, <1>2, <2>1, <2>2 DEF WalkHolds
  <2>4. walk' = [walk EXCEPT ![s] = w] /\ held' = [held EXCEPT ![s] = held[s]]
    BY <1>3, <2>1
  <2> HIDE DEF w
  <2> QED
    BY <2>1, <2>2, <2>3, <2>4 DEF Moves
<1>4. ASSUME NEW end \in {"denied", "failed"}, End(s, end, {0})
      PROVE  Moves(s)
  BY <1>1, <1>2, <1>4, FailInLoop
<1>5. ASSUME next \in Nodes, EnterDirectory(s, next)
      PROVE  Moves(s)
  BY <1>1, <1>2, <1>5, OpenedInside, EnterMoves DEF ToolsInv
<1>6. Moves(s)
  BY <1>3, <1>4, <1>5 DEF OpenDirectory
<1> QED
  BY <1>1, <1>6, NodesKept, MovesHold, WalkFacts

LEMMA MakeDirectoryInv ==
    ASSUME ToolsInv, NEW s \in Servers, MakeDirectory(s)
    PROVE  ToolsInv'
<1> DEFINE dir == walk[s].dir
<1>1. UNCHANGED <<calls, changes>> /\ walk[s].step = "make"
  BY DEF MakeDirectory
<1>2. walk[s].at \in 1..Depth /\ dir \in 0..MaxNode
  BY <1>1, AtOpen
<1>3. ASSUME walk' = [walk EXCEPT ![s].step = "reopen"], UNCHANGED held
      PROVE  Moves(s)
  <2> DEFINE w == [walk[s] EXCEPT !.step = "reopen"]
  <2>1. walk[s] \in Walks /\ walk \in [Servers -> Walks] /\ held[s] \in SUBSET (0..Leaf)
        /\ held \in [Servers -> SUBSET (0..Leaf)] /\ WalkHolds(walk[s], held[s])
    BY WalkFacts
  <2>2. w \in Walks /\ w.step = "reopen" /\ w.at = walk[s].at /\ w.dir = walk[s].dir
    BY <2>1 DEF Walks
  <2>3. WalkHolds(w, held[s])
    BY <1>1, <1>2, <2>1, <2>2 DEF WalkHolds
  <2>4. walk' = [walk EXCEPT ![s] = w] /\ held' = [held EXCEPT ![s] = held[s]]
    BY <1>3, <2>1
  <2> HIDE DEF w
  <2> QED
    BY <2>1, <2>2, <2>3, <2>4 DEF Moves
<1>4. ASSUME End(s, "failed", {0})
      PROVE  Moves(s)
  BY <1>1, <1>2, <1>4, FailInLoop
<1>5. Moves(s)
  BY <1>3, <1>4 DEF MakeDirectory
<1>6. \/ UNCHANGED <<kind, entry>>
      \/ Unused # {} /\ Makes(dir, "dir")
  BY DEF MakeDirectory, Makes
<1>7. /\ EntriesInside'
      /\ kind' \in [Nodes -> {"unused", "dir", "file", "removed"}]
      /\ entry' \in [Nodes -> Nodes \union {Nothing, Link}]
  BY <1>2, <1>6, NodesKept, MakesInside
<1> QED
  BY <1>1, <1>5, <1>7, MovesHold, WalkFacts

LEMMA ReopenDirectoryInv ==
    ASSUME ToolsInv, NEW s \in Servers, ReopenDirectory(s)
    PROVE  ToolsInv'
<1> DEFINE next == OpenAt(walk[s].dir, walk[s].at)
<1>1. UNCHANGED <<kind, entry, calls, changes>> /\ walk[s].step = "reopen"
  BY DEF ReopenDirectory
<1>2. walk[s].at \in 1..Depth /\ walk[s].dir \in 0..MaxNode
  BY <1>1, AtOpen
<1>3. ASSUME End(s, "failed", {0})
      PROVE  Moves(s)
  BY <1>1, <1>2, <1>3, FailInLoop
<1>4. ASSUME next \in Nodes, EnterDirectory(s, next)
      PROVE  Moves(s)
  BY <1>1, <1>2, <1>4, OpenedInside, EnterMoves DEF ToolsInv
<1>5. Moves(s)
  BY <1>3, <1>4 DEF ReopenDirectory
<1> QED
  BY <1>1, <1>5, NodesKept, MovesHold, WalkFacts

LEMMA OpenLeafInv ==
    ASSUME ToolsInv, NEW s \in Servers, OpenLeaf(s)
    PROVE  ToolsInv'
<1> DEFINE dir == walk[s].dir
           next == OpenAt(dir, Leaf)
           Opened(node) ==
               /\ walk' = [walk EXCEPT ![s].step = "use", ![s].dir = node]
               /\ held' = [held EXCEPT ![s] = (@ \ {0, Depth}) \union {Leaf}]
<1>1. UNCHANGED <<calls, changes>> /\ walk[s].step = "open" /\ ~(walk[s].at <= Depth)
  BY DEF OpenLeaf, IsDirectoryName
<1>2. walk[s].at = Leaf /\ dir \in 0..MaxNode /\ held[s] \ {0, Depth} = {}
      /\ ~(walk[s].at \in 2..Depth)
  BY <1>1, AtOpen, NameFacts, CloseRoot
<1>3. ASSUME NEW node \in Inside, Opened(node)
      PROVE  Moves(s)
  <2> DEFINE w == [walk[s] EXCEPT !.step = "use", !.dir = node]
  <2>1. walk[s] \in Walks /\ walk \in [Servers -> Walks]
        /\ held \in [Servers -> SUBSET (0..Leaf)]
    BY WalkFacts
  <2>2. w \in Walks /\ w.step = "use" /\ w.at = walk[s].at /\ w.dir = node
    BY <2>1, NodeFacts DEF Walks
  <2>3. WalkHolds(w, {Leaf}) /\ {Leaf} \in SUBSET (0..Leaf)
    BY <1>2, <2>2, NodeFacts, NameFacts DEF WalkHolds
  <2>4. walk' = [walk EXCEPT ![s] = w] /\ held' = [held EXCEPT ![s] = {Leaf}]
    BY <1>2, <1>3, <2>1
  <2> HIDE DEF w
  <2> QED
    BY <2>2, <2>3, <2>4 DEF Moves
<1>4. ASSUME NEW end \in {"denied", "failed"}, End(s, end, {0, Depth})
      PROVE  Moves(s)
  BY <1>2, <1>4, EndMoves
<1>5. CASE Unused # {} /\ Makes(dir, "file") /\ Opened(Fresh)
  BY <1>1, <1>2, <1>3, <1>5, FreshInside, MakesInside, MovesHold, WalkFacts
<1>6. CASE next \in Nodes /\ Opened(next) /\ UNCHANGED <<kind, entry>>
  BY <1>1, <1>2, <1>3, <1>6, OpenedInside, NodesKept, MovesHold, WalkFacts DEF ToolsInv
<1>7. ASSUME NEW end \in {"denied", "failed"}, End(s, end, {0, Depth}),
             UNCHANGED <<kind, entry>>
      PROVE  ToolsInv'
  BY <1>1, <1>4, <1>7, NodesKept, MovesHold, WalkFacts
<1>8. \/ Unused # {} /\ Makes(dir, "file") /\ Opened(Fresh)
      \/ next \in Nodes /\ Opened(next) /\ UNCHANGED <<kind, entry>>
      \/ \E end \in {"denied", "failed"} : End(s, end, {0, Depth}) /\ UNCHANGED <<kind, entry>>
  BY DEF OpenLeaf, Makes
<1> HIDE DEF Opened
<1> QED
  BY <1>5, <1>6, <1>7, <1>8

LEMMA UseLeafInv ==
    ASSUME ToolsInv, NEW s \in Servers, UseLeaf(s)
    PROVE  ToolsInv'
<1>1. UNCHANGED <<kind, entry, calls, changes>> /\ walk[s].step = "use"
  BY DEF UseLeaf
<1>2. walk[s].at = Leaf /\ held[s] = {Leaf} /\ ~(walk[s].at \in 2..Depth)
  <2>1. WalkHolds(walk[s], held[s])
    BY WalkFacts
  <2> QED
    BY <1>1, <2>1, NameFacts DEF WalkHolds
<1>3. ASSUME NEW end \in {"ok", "failed"}, End(s, end, {Leaf})
      PROVE  Moves(s)
  <2>1. held[s] \ {Leaf} = {}
    BY <1>2
  <2> QED
    BY <1>2, <1>3, <2>1, EndMoves
<1>4. ASSUME End(s, "unreadable", {})
      PROVE  Moves(s)
  <2>1. held[s] \ {} = {Leaf}
    BY <1>2
  <2> QED
    BY <1>4, <2>1, EndMoves
<1>5. Moves(s)
  BY <1>3, <1>4 DEF UseLeaf
<1> QED
  BY <1>1, <1>5, NodesKept, MovesHold, WalkFacts

-----------------------------------------------------------------------------
\* Other programs.

LEMMA MeddlingInv ==
    ASSUME ToolsInv, Meddles, EntriesInside',
           kind' \in [Nodes -> {"unused", "dir", "file", "removed"}],
           entry' \in [Nodes -> Nodes \union {Nothing, Link}]
    PROVE  ToolsInv'
<1>1. changes' \in 0..MaxChanges
  BY GovernedToolsAssumption DEF Meddles, ToolsInv, ToolsTypeOK
<1>2. UNCHANGED <<walk, held, calls>>
  BY DEF Meddles
<1>3. WalksHold'
  BY <1>2 DEF ToolsInv, WalksHold, WalkHolds
<1> QED
  BY <1>1, <1>2, <1>3 DEF ToolsInv, ToolsTypeOK

LEMMA OtherProgramsInv ==
    ASSUME ToolsInv, NEW dir \in 0..MaxNode,
           \/ MoveAway(dir)
           \/ RemoveDirectory(dir)
           \/ PutLink(dir)
           \/ \E what \in {"dir", "file"} : PutNode(dir, what)
    PROVE  ToolsInv'
<1>1. /\ entry \in [Nodes -> Nodes \union {Nothing, Link}]
      /\ kind \in [Nodes -> {"unused", "dir", "file", "removed"}]
      /\ EntriesInside
  BY DEF ToolsInv, ToolsTypeOK
<1>2. ASSUME NEW e \in {Nothing, Link}, entry' = [entry EXCEPT ![dir] = e]
      PROVE  EntriesInside' /\ entry' \in [Nodes -> Nodes \union {Nothing, Link}]
  <2>1. \A x \in 0..MaxNode : entry'[x] \in Inside \union {Nothing, Link}
    BY <1>1, <1>2, NodeFacts DEF EntriesInside
  <2>2. EntriesInside'
    BY <2>1 DEF EntriesInside, Inside, Nothing, Link
  <2> QED
    BY <1>1, <1>2, <2>2
<1>3. CASE MoveAway(dir)
  BY <1>1, <1>2, <1>3, MeddlingInv DEF MoveAway
<1>4. CASE RemoveDirectory(dir)
  <2>1. kind' = [kind EXCEPT ![entry[dir]] = "removed"]
        /\ entry' = [entry EXCEPT ![dir] = Nothing] /\ Meddles
    BY <1>4 DEF RemoveDirectory
  <2>2. kind' \in [Nodes -> {"unused", "dir", "file", "removed"}]
    BY <1>1, <2>1
  <2> QED
    BY <1>2, <2>1, <2>2, MeddlingInv
<1>5. CASE PutLink(dir)
  BY <1>1, <1>2, <1>5, MeddlingInv DEF PutLink
<1>6. ASSUME NEW what \in {"dir", "file"}, PutNode(dir, what)
      PROVE  ToolsInv'
  <2>1. Unused # {} /\ Makes(dir, what) /\ Meddles
    BY <1>6 DEF PutNode, Makes
  <2> QED
    BY <2>1, MakesInside, MeddlingInv
<1> QED
  BY <1>3, <1>4, <1>5, <1>6

-----------------------------------------------------------------------------
\* The theorems.

LEMMA ToolsInitInv == ToolsInit => ToolsInv
<1> SUFFICES ASSUME ToolsInit PROVE ToolsInv
  OBVIOUS
<1>1. PICK n \in 0..Depth, last \in {"nothing", "link", "file", "dir"} :
        /\ kind = [x \in Nodes |->
                      IF x <= n \/ x = Out THEN "dir"
                      ELSE IF x = OutFile THEN "file"
                      ELSE IF x = n + 1 /\ last \in {"file", "dir"} THEN last ELSE "unused"]
        /\ entry = [x \in Nodes |->
                      IF x < n THEN x + 1
                      ELSE IF x = n /\ last = "link" THEN Link
                      ELSE IF x = n /\ last \in {"file", "dir"} THEN n + 1
                      ELSE IF x = Out THEN OutFile
                      ELSE Nothing]
        /\ walk = [s \in Servers |-> Idle]
        /\ held = [s \in Servers |-> {}]
        /\ calls = [s \in Servers |-> 0]
        /\ changes = 0
  BY DEF ToolsInit
<1>2. kind \in [Nodes -> {"unused", "dir", "file", "removed"}]
  BY <1>1
<1>3. \A x \in Nodes : x \in Nat /\ (x < n => x + 1 \in Inside) /\ n + 1 \in Inside
  BY NameFacts, GovernedToolsAssumption DEF Nodes, Inside
<1>4. Inside \subseteq Nodes /\ OutFile \in Nodes
  BY GovernedToolsAssumption DEF Nodes, Inside, OutFile
<1>5. entry \in [Nodes -> Nodes \union {Nothing, Link}]
  <2>1. \A x \in Nodes : entry[x] \in Nodes \union {Nothing, Link}
    BY <1>1, <1>3, <1>4
  <2> QED
    BY <1>1, <2>1
<1>6. EntriesInside
  BY <1>1, <1>3, NodeFacts DEF EntriesInside
<1>7. Idle \in Walks /\ WalkHolds(Idle, {})
  BY NameFacts, NodeFacts DEF Idle, Over, Walks, WalkHolds
<1>8. walk \in [Servers -> Walks] /\ held \in [Servers -> SUBSET (0..Leaf)] /\ WalksHold
  BY <1>1, <1>7 DEF WalksHold
<1>9. calls \in [Servers -> 0..MaxCalls] /\ changes \in 0..MaxChanges
  BY <1>1, GovernedToolsAssumption
<1> QED
  BY <1>2, <1>5, <1>6, <1>8, <1>9 DEF ToolsInv, ToolsTypeOK

LEMMA ToolsStep == ToolsInv /\ [ToolsNext]_toolVars => ToolsInv'
<1> SUFFICES ASSUME ToolsInv, [ToolsNext]_toolVars PROVE ToolsInv'
  OBVIOUS
<1>1. CASE UNCHANGED toolVars
  <2>1. ToolsTypeOK' /\ WalksHold'
    BY <1>1 DEF toolVars, ToolsInv, ToolsTypeOK, WalksHold, WalkHolds
  <2> QED
    BY <1>1, <2>1, NodesKept DEF toolVars, ToolsInv
<1> QED
  BY <1>1, ResolveInv, OpenDirectoryInv, MakeDirectoryInv, ReopenDirectoryInv, OpenLeafInv,
     UseLeafInv, OtherProgramsInv DEF ToolsNext

\* The invariant the others rest on: names inside lead inside or to a link, and each walk
\* holds exactly the descriptors of its place, whatever other programs do.
THEOREM ToolsInductive == ToolsSpec => []ToolsInv
  BY ToolsInitInv, ToolsStep, PTL DEF ToolsSpec

\* Inodes, walks and descriptors stay what they should be.
THEOREM ToolsTypeCorrect == ToolsSpec => []ToolsTypeOK
<1>1. ToolsInv => ToolsTypeOK
  BY DEF ToolsInv
<1> QED
  BY <1>1, ToolsInductive, PTL

\* Whatever other programs put in the way of a walk, and whenever: no directory it is
\* in, and no file it opens, lies outside the workspace.
THEOREM StaysInside == ToolsSpec => []NeverOutside
<1>1. ToolsInv => NeverOutside
  BY NodeFacts DEF ToolsInv, WalksHold, WalkHolds, NeverOutside
<1> QED
  BY <1>1, ToolsInductive, PTL

\* On every path through a call the descriptors that stay open are the ones counted,
\* however deep the path: none after a success.
THEOREM LeavesOpenWhatItSays == ToolsSpec => []LeavesOpen
<1>1. ToolsInv => LeavesOpen
  BY DEF ToolsInv, WalksHold, WalkHolds, LeavesOpen
<1> QED
  BY <1>1, ToolsInductive, PTL
-----------------------------------------------------------------------------
\* Induction up to a number, over the set of the numbers that have a property.

LEMMA LeastNumber ==
    ASSUME NEW T, T \subseteq Nat, T # {}
    PROVE  \E n \in T : \A k \in T : n <= k
<1>1. \E n \in T : \A k \in T : ~(<<k, n>> \in OpToRel(<, Nat))
  BY NatLessThanWellFounded, WFMin
<1>2. PICK n \in T : \A k \in T : ~(<<k, n>> \in OpToRel(<, Nat))
  BY <1>1
<1>3. \A k \in T : ~(k < n)
  BY <1>2 DEF OpToRel
<1> QED
  BY <1>3

LEMMA UpTo ==
    ASSUME NEW n \in Nat, NEW T, 0 \in T, \A k \in 0..n - 1 : k \in T => k + 1 \in T
    PROVE  \A k \in 0..n : k \in T
<1> DEFINE missing == {k \in 0..n : k \notin T}
<1> SUFFICES ASSUME missing # {} PROVE FALSE
  OBVIOUS
<1>1. missing \subseteq Nat
  OBVIOUS
<1>2. \E m \in missing : \A k \in missing : m <= k
  <2> HIDE DEF missing
  <2> QED
    BY <1>1, LeastNumber
<1>3. PICK m \in missing : \A k \in missing : m <= k
  BY <1>2
<1>4. m - 1 \in 0..n - 1 /\ m - 1 \notin missing
  BY <1>3
<1> QED
  BY <1>3, <1>4

-----------------------------------------------------------------------------
\* What the names of the path stand for, given the entries of the directories.

Chain(f, e) ==
    f = [n \in 0..Leaf |-> IF n = 0 THEN Root
                           ELSE IF f[n - 1] \in {Nothing, Link} THEN f[n - 1]
                           ELSE e[f[n - 1]]]

PathOf(e) == CHOOSE f : Chain(f, e)

LEMMA OnPathIs == OnPath = PathOf(entry) /\ OnPath' = PathOf(entry')
  BY DEF OnPath, PathOf, Chain

LEMMA ChainExists ==
    ASSUME NEW e
    PROVE  \E f : Chain(f, e)
<1> DEFINE Solves(f, k) == f = [n \in 0..k |-> IF n = 0 THEN Root
                                              ELSE IF f[n - 1] \in {Nothing, Link} THEN f[n - 1]
                                              ELSE e[f[n - 1]]]
           T == {k \in 0..Leaf : \E f : Solves(f, k)}
<1>1. Leaf \in Nat
  BY NameFacts
<1>2. 0 \in T
  <2>1. Solves([n \in 0..0 |-> Root], 0)
    OBVIOUS
  <2> HIDE DEF Solves
  <2>2. \E f : Solves(f, 0)
    BY <2>1
  <2> QED
    BY <1>1, <2>2
<1>3. ASSUME NEW k \in 0..Leaf - 1, k \in T
      PROVE  k + 1 \in T
  <2>1. PICK f : Solves(f, k)
    BY <1>3
  <2> DEFINE last == IF f[k] \in {Nothing, Link} THEN f[k] ELSE e[f[k]]
             h == [n \in 0..k + 1 |-> IF n = k + 1 THEN last ELSE f[n]]
  <2>2. ASSUME NEW n \in 0..k + 1
        PROVE  h[n] = IF n = 0 THEN Root
                      ELSE IF h[n - 1] \in {Nothing, Link} THEN h[n - 1] ELSE e[h[n - 1]]
    <3>1. CASE n = k + 1
      <4>1. h[n] = last /\ h[n - 1] = f[k] /\ n # 0
        BY <3>1
      <4> QED
        BY <4>1
    <3>2. CASE n # k + 1
      <4>1. n \in 0..k /\ h[n] = f[n] /\ (n # 0 => h[n - 1] = f[n - 1])
        BY <3>2
      <4>2. f[n] = IF n = 0 THEN Root
                   ELSE IF f[n - 1] \in {Nothing, Link} THEN f[n - 1] ELSE e[f[n - 1]]
        BY <2>1, <4>1
      <4> QED
        BY <4>1, <4>2
    <3> QED
      BY <3>1, <3>2
  <2>3. Solves(h, k + 1)
    BY <2>2
  <2> HIDE DEF Solves
  <2>4. \E g : Solves(g, k + 1)
    BY <2>3
  <2> QED
    BY <1>1, <2>4
<1>4. \A k \in 0..Leaf : k \in T
  <2> HIDE DEF T
  <2> QED
    BY <1>1, <1>2, <1>3, UpTo
<1>5. \E f : Solves(f, Leaf)
  <2>1. Leaf \in T
    <3> HIDE DEF T
    <3> QED
      BY <1>1, <1>4
  <2> HIDE DEF Solves
  <2> QED
    BY <2>1
<1>6. \A f : Solves(f, Leaf) <=> Chain(f, e)
  BY DEF Chain
<1> HIDE DEF Solves
<1> QED
  BY <1>5, <1>6

LEMMA ChainUnique ==
    ASSUME NEW e, NEW f, Chain(f, e), NEW g, Chain(g, e)
    PROVE  f = g
<1> DEFINE T == {n \in 0..Leaf : f[n] = g[n]}
<1>1. Leaf \in Nat
  BY NameFacts
<1>2. 0 \in T
  BY <1>1 DEF Chain
<1>3. ASSUME NEW n \in 0..Leaf - 1, n \in T
      PROVE  n + 1 \in T
  <2>1. n + 1 \in 0..Leaf /\ n + 1 # 0 /\ (n + 1) - 1 = n
    BY <1>1
  <2>2. f[n + 1] = IF f[n] \in {Nothing, Link} THEN f[n] ELSE e[f[n]]
    BY <2>1 DEF Chain
  <2>3. g[n + 1] = IF g[n] \in {Nothing, Link} THEN g[n] ELSE e[g[n]]
    BY <2>1 DEF Chain
  <2> QED
    BY <1>3, <2>1, <2>2, <2>3
<1>4. \A n \in 0..Leaf : n \in T
  <2> HIDE DEF T
  <2> QED
    BY <1>1, <1>2, <1>3, UpTo
<1>5. f = [n \in 0..Leaf |-> f[n]] /\ g = [n \in 0..Leaf |-> g[n]]
  BY DEF Chain
<1> QED
  BY <1>4, <1>5

LEMMA PathSteps ==
    ASSUME NEW e
    PROVE  /\ Chain(PathOf(e), e)
           /\ PathOf(e)[0] = Root
           /\ \A n \in 1..Leaf : PathOf(e)[n] =
                  IF PathOf(e)[n - 1] \in {Nothing, Link} THEN PathOf(e)[n - 1]
                  ELSE e[PathOf(e)[n - 1]]
<1>1. Chain(PathOf(e), e)
  BY ChainExists DEF PathOf
<1>2. Leaf \in Nat
  BY NameFacts
<1> DEFINE f == PathOf(e)
<1>3. f = [n \in 0..Leaf |-> IF n = 0 THEN Root
                             ELSE IF f[n - 1] \in {Nothing, Link} THEN f[n - 1]
                             ELSE e[f[n - 1]]]
  BY <1>1 DEF Chain
<1> HIDE DEF f
<1>4. f[0] = Root
  BY <1>2, <1>3
<1>5. \A n \in 1..Leaf : f[n] = IF f[n - 1] \in {Nothing, Link} THEN f[n - 1] ELSE e[f[n - 1]]
  BY <1>2, <1>3
<1> QED
  BY <1>1, <1>4, <1>5 DEF f

\* The entries as the tool and other programs keep them: nothing is entered twice.
Entries(e) ==
    /\ e \in [Nodes -> Nodes \union {Nothing, Link}]
    /\ \A x \in 0..MaxNode : e[x] \in Inside \union {Nothing, Link}
    /\ \A x, y \in 0..MaxNode : e[x] = e[y] /\ e[x] \in Nodes => x = y

LEMMA PathNodes ==
    ASSUME NEW e, Entries(e)
    PROVE  /\ \A n \in 0..Leaf : PathOf(e)[n] \in (0..MaxNode) \union {Nothing, Link}
           /\ \A n \in 1..Leaf : PathOf(e)[n] # Root
<1> DEFINE f == PathOf(e)
           T == {n \in 0..Leaf : /\ f[n] \in (0..MaxNode) \union {Nothing, Link}
                                 /\ n # 0 => f[n] # Root}
<1>0. f[0] = Root /\ \A n \in 1..Leaf : f[n] =
          IF f[n - 1] \in {Nothing, Link} THEN f[n - 1] ELSE e[f[n - 1]]
  BY PathSteps
<1>1. Leaf \in Nat /\ Root \in 0..MaxNode /\ Root \notin Inside \union {Nothing, Link}
      /\ Inside \subseteq 0..MaxNode
  BY NameFacts, NodeFacts, GovernedToolsAssumption DEF Root, Inside, Nothing, Link
<1> HIDE DEF f
<1>2. 0 \in T
  BY <1>0, <1>1
<1>3. ASSUME NEW n \in 0..Leaf - 1, n \in T
      PROVE  n + 1 \in T
  <2>1. n + 1 \in 1..Leaf /\ n + 1 \in 0..Leaf /\ (n + 1) - 1 = n
    BY <1>1
  <2>2. f[n + 1] = IF f[n] \in {Nothing, Link} THEN f[n] ELSE e[f[n]]
    BY <1>0, <2>1
  <2>3. f[n] \in (0..MaxNode) \union {Nothing, Link}
    BY <1>3
  <2>4. f[n + 1] \in Inside \union {Nothing, Link}
    BY <2>2, <2>3 DEF Entries
  <2> QED
    BY <1>1, <2>1, <2>4
<1>4. \A n \in 0..Leaf : n \in T
  <2> HIDE DEF T
  <2> QED
    BY <1>1, <1>2, <1>3, UpTo
<1>5. \A n \in 1..Leaf : n \in 0..Leaf /\ n # 0
  BY <1>1
<1> QED
  BY <1>4, <1>5 DEF f

\* The path never comes by a node twice.
LEMMA PathApart ==
    ASSUME NEW e, Entries(e), NEW n \in 0..Leaf, NEW m \in 0..n - 1, PathOf(e)[n] \in Nodes
    PROVE  PathOf(e)[m] # PathOf(e)[n]
<1> DEFINE f == PathOf(e)
           T == {k \in 0..Leaf : f[k] \in Nodes => \A j \in 0..k - 1 : f[j] # f[k]}
<1>0. f[0] = Root /\ \A k \in 1..Leaf : f[k] =
          IF f[k - 1] \in {Nothing, Link} THEN f[k - 1] ELSE e[f[k - 1]]
  BY PathSteps
<1>1. /\ \A k \in 0..Leaf : f[k] \in (0..MaxNode) \union {Nothing, Link}
      /\ \A k \in 1..Leaf : f[k] # Root
  BY PathNodes
<1>2. Leaf \in Nat
  BY NameFacts
<1> HIDE DEF f
<1>3. 0 \in T
  BY <1>2
<1>4. ASSUME NEW k \in 0..Leaf - 1, k \in T
      PROVE  k + 1 \in T
  <2>1. k + 1 \in 1..Leaf /\ k + 1 \in 0..Leaf /\ (k + 1) - 1 = k /\ k \in 0..Leaf
    BY <1>2
  <2> SUFFICES ASSUME f[k + 1] \in Nodes, NEW j \in 0..(k + 1) - 1, f[j] = f[k + 1]
               PROVE  FALSE
    BY <2>1
  <2>2. f[k] \in 0..MaxNode /\ f[k + 1] = e[f[k]]
    BY <1>0, <1>1, <2>1, NodeFacts
  <2>3. j # 0
    BY <1>0, <1>1, <2>1
  <2>4. j \in 1..Leaf /\ j - 1 \in 0..k - 1 /\ j - 1 \in 0..Leaf
    BY <1>2, <2>1, <2>3
  <2>5. f[j - 1] \in 0..MaxNode /\ f[j] = e[f[j - 1]]
    BY <1>0, <1>1, <2>4, NodeFacts
  <2>6. f[j - 1] = f[k]
    BY <2>2, <2>5 DEF Entries
  <2>7. f[k] \in Nodes
    BY <2>2, NodeFacts
  <2> QED
    BY <1>4, <2>4, <2>6, <2>7
<1>5. \A k \in 0..Leaf : k \in T
  <2> HIDE DEF T
  <2> QED
    BY <1>2, <1>3, <1>4, UpTo
<1> QED
  BY <1>5 DEF f
\* A directory made in one that the path comes to continues the path by one name.
LEMMA PathExtended ==
    ASSUME NEW e, Entries(e), NEW k \in 1..Leaf, PathOf(e)[k - 1] \in 0..MaxNode,
           e[PathOf(e)[k - 1]] = Nothing,
           NEW fresh \in Inside, fresh # PathOf(e)[k - 1], e[fresh] = Nothing
    PROVE  \A n \in 0..Leaf :
               /\ n < k => PathOf([e EXCEPT ![PathOf(e)[k - 1]] = fresh])[n] = PathOf(e)[n]
               /\ n = k => PathOf([e EXCEPT ![PathOf(e)[k - 1]] = fresh])[n] = fresh
               /\ n > k => PathOf([e EXCEPT ![PathOf(e)[k - 1]] = fresh])[n] = Nothing
               /\ n >= k => PathOf(e)[n] = Nothing
<1> DEFINE f == PathOf(e)
           dir == f[k - 1]
           e2 == [e EXCEPT ![dir] = fresh]
           q == [n \in 0..Leaf |-> IF n < k THEN f[n] ELSE IF n = k THEN fresh ELSE Nothing]
<1>0. f[0] = Root /\ \A n \in 1..Leaf : f[n] =
          IF f[n - 1] \in {Nothing, Link} THEN f[n - 1] ELSE e[f[n - 1]]
  BY PathSteps
<1>1. \A n \in 0..Leaf : f[n] \in (0..MaxNode) \union {Nothing, Link}
  BY PathNodes
<1>2. Leaf \in Nat /\ k \in Nat /\ 0 < k /\ k <= Leaf /\ k - 1 \in 0..Leaf /\ dir \in Nodes
  BY NameFacts, NodeFacts
<1>3. \A n \in 0..Leaf, m \in 0..Leaf : m < n /\ f[n] \in Nodes => f[m] # f[n]
  BY PathApart
<1>4. /\ e2[dir] = fresh
      /\ \A x \in Nodes : x # dir => e2[x] = e[x]
      /\ fresh \in Nodes /\ fresh \notin {Nothing, Link} /\ dir \notin {Nothing, Link}
  BY <1>2, NodeFacts DEF Entries
<1>5. \A n \in k..Leaf : f[n] = Nothing
  <2> DEFINE T == {j \in 0..Leaf - k : f[k + j] = Nothing}
  <2>1. 0 \in T
    <3>1. dir = f[k - 1] /\ e[dir] = Nothing
      OBVIOUS
    <3> HIDE DEF f, dir
    <3>2. f[k] = Nothing
      BY <1>0, <1>4, <3>1
    <3>3. k + 0 = k /\ 0 \in 0..Leaf - k
      BY <1>2
    <3> QED
      BY <3>2, <3>3
  <2>2. ASSUME NEW j \in 0..(Leaf - k) - 1, j \in T
        PROVE  j + 1 \in T
    <3>1. k + (j + 1) \in 1..Leaf /\ (k + (j + 1)) - 1 = k + j /\ j + 1 \in 0..Leaf - k
      BY <1>2
    <3>2. f[k + j] = Nothing
      BY <2>2
    <3> HIDE DEF f
    <3> QED
      BY <1>0, <3>1, <3>2
  <2>3. Leaf - k \in Nat
    BY <1>2
  <2>4. \A j \in 0..Leaf - k : j \in T
    <3> HIDE DEF T
    <3> QED
      BY <2>1, <2>2, <2>3, UpTo
  <2>5. \A n \in k..Leaf : n - k \in 0..Leaf - k /\ k + (n - k) = n
    BY <1>2
  <2> QED
    BY <2>4, <2>5
<1> HIDE DEF f, dir, e2
<1>6. ASSUME NEW n \in 0..Leaf
      PROVE  q[n] = IF n = 0 THEN Root
                    ELSE IF q[n - 1] \in {Nothing, Link} THEN q[n - 1] ELSE e2[q[n - 1]]
  <2>1. CASE n = 0
    BY <1>0, <1>2, <2>1
  <2>2. CASE n # 0 /\ n < k
    <3>1. n - 1 \in 0..Leaf /\ n - 1 < k /\ n \in 1..Leaf /\ n - 1 < k - 1
      BY <1>2, <2>2
    <3>2. q[n] = f[n] /\ q[n - 1] = f[n - 1]
      BY <2>2, <3>1
    <3>3. f[n - 1] # dir
      BY <1>2, <1>3, <3>1 DEF dir
    <3>4. f[n - 1] \in {Nothing, Link} \/ f[n - 1] \in Nodes
      BY <1>1, <3>1, NodeFacts
    <3>5. f[n] = IF f[n - 1] \in {Nothing, Link} THEN f[n - 1] ELSE e[f[n - 1]]
      BY <1>0, <3>1
    <3> QED
      BY <1>4, <2>2, <3>2, <3>3, <3>4, <3>5
  <2>3. CASE n = k
    <3>1. n - 1 \in 0..Leaf /\ n - 1 < k /\ n - 1 = k - 1
      BY <1>2, <2>3
    <3>2. q[n] = fresh /\ q[n - 1] = dir
      BY <1>2, <2>3, <3>1 DEF dir
    <3> QED
      BY <1>2, <1>4, <2>3, <3>2
  <2>4. CASE n = k + 1
    <3>1. n - 1 \in 0..Leaf /\ n - 1 = k
      BY <1>2, <2>4
    <3>2. q[n] = Nothing /\ q[n - 1] = fresh
      BY <1>2, <2>4, <3>1
    <3>3. e2[fresh] = Nothing
      BY <1>4 DEF dir, f
    <3> QED
      BY <1>2, <1>4, <2>4, <3>2, <3>3
  <2>5. CASE n > k + 1
    <3>1. n - 1 \in 0..Leaf /\ ~(n - 1 < k) /\ n - 1 # k /\ ~(n < k) /\ n # k /\ n # 0
      BY <1>2, <2>5
    <3>2. q[n] = Nothing /\ q[n - 1] = Nothing
      BY <3>1
    <3> QED
      BY <3>1, <3>2
  <2> QED
    BY <1>2, <2>1, <2>2, <2>3, <2>4, <2>5
<1>7. Chain(q, e2)
  BY <1>6 DEF Chain
<1> HIDE DEF q
<1>8. PathOf(e2) = q
  BY <1>7, ChainUnique, PathSteps
<1>9. \A n \in 0..Leaf : PathOf(e2)[n] = IF n < k THEN f[n] ELSE IF n = k THEN fresh ELSE Nothing
  BY <1>8 DEF q
<1>10. \A n \in 0..Leaf : /\ n < k => PathOf(e2)[n] = f[n]
                          /\ n = k => PathOf(e2)[n] = fresh
                          /\ n > k => PathOf(e2)[n] = Nothing
                          /\ n >= k => f[n] = Nothing
  BY <1>2, <1>5, <1>9
<1> QED
  BY <1>10 DEF e2, dir, f

-----------------------------------------------------------------------------
\* The invariant of the servers' races.

\* The inodes in use form trees, and the workspace's root is one of its directories.
Tree ==
    /\ kind[Root] = "dir"
    /\ \A x \in 0..MaxNode : entry[x] \in Nodes => kind[entry[x]] # "unused"
    /\ \A x \in Inside : kind[x] = "unused" => entry[x] = Nothing
    /\ \A x, y \in 0..MaxNode : entry[x] = entry[y] /\ entry[x] \in Nodes => x = y

\* As long as nobody else changes the path, a walk is where the path leads.
OnItsPath(w, on, kinds, entries) ==
    /\ w.step \in {"open", "make", "reopen"} => w.dir = on[w.at - 1] /\ kinds[w.dir] = "dir"
    /\ w.step = "reopen" => entries[w.dir] # Nothing
    /\ w.step = "use" /\ w.op = "write" => kinds[w.dir] = "file"

WalksOnPath == changes = 0 => \A s \in Servers : OnItsPath(walk[s], OnPath, kind, entry)

RaceInv == ToolsInv /\ Tree /\ WalksOnPath /\ CreationRaceIsBenign

LEMMA TreeEntries ==
    ASSUME ToolsInv, Tree
    PROVE  Entries(entry)
  BY DEF ToolsInv, ToolsTypeOK, EntriesInside, Tree, Entries

LEMMA TreeSame ==
    ASSUME Tree, UNCHANGED <<kind, entry>>
    PROVE  Tree'
  BY DEF Tree, Root, Nodes, Inside, Nothing

LEMMA TreeMade ==
    ASSUME ToolsInv, Tree, NEW dir \in 0..MaxNode, NEW what \in {"dir", "file"},
           Unused # {}, kind[dir] = "dir", entry[dir] = Nothing, Makes(dir, what)
    PROVE  Tree'
<1>1. Fresh \in Inside /\ kind[Fresh] = "unused" /\ entry[Fresh] = Nothing /\ Fresh # dir
  BY FreshInside DEF Tree
<1>2. /\ entry \in [Nodes -> Nodes \union {Nothing, Link}]
      /\ kind \in [Nodes -> {"unused", "dir", "file", "removed"}]
      /\ EntriesInside
  BY DEF ToolsInv, ToolsTypeOK
<1>3. \A x \in 0..MaxNode : entry[x] # Fresh
  BY <1>1, NodeFacts DEF Tree
<1>4. /\ kind'[Fresh] = what /\ \A x \in Nodes : x # Fresh => kind'[x] = kind[x]
      /\ entry'[dir] = Fresh /\ \A x \in Nodes : x # dir => entry'[x] = entry[x]
  BY <1>1, <1>2, NodeFacts DEF Makes
<1>5. Fresh # Root /\ Root \in Nodes /\ Fresh \in Nodes /\ Inside \subseteq 0..MaxNode
      /\ 0..MaxNode \subseteq Nodes /\ dir \in Nodes
  BY <1>1, NodeFacts, GovernedToolsAssumption DEF Root, Inside
<1>6. kind'[Root] = "dir"
  BY <1>4, <1>5 DEF Tree
<1>7. \A x \in 0..MaxNode : entry'[x] \in Nodes => kind'[entry'[x]] # "unused"
  <2> SUFFICES ASSUME NEW x \in 0..MaxNode, entry'[x] \in Nodes
               PROVE  kind'[entry'[x]] # "unused"
    OBVIOUS
  <2>1. CASE x = dir
    BY <1>4, <2>1
  <2>2. CASE x # dir
    <3>1. entry'[x] = entry[x] /\ entry[x] # Fresh
      BY <1>3, <1>4, <1>5, <2>2
    <3>2. kind'[entry[x]] = kind[entry[x]]
      BY <1>4, <3>1
    <3> QED
      BY <3>1, <3>2 DEF Tree
  <2> QED
    BY <2>1, <2>2
<1>8. \A x \in Inside : kind'[x] = "unused" => entry'[x] = Nothing
  BY <1>1, <1>4, <1>5 DEF Tree
<1>9. \A x, y \in 0..MaxNode : entry'[x] = entry'[y] /\ entry'[x] \in Nodes => x = y
  BY <1>3, <1>4, <1>5 DEF Tree
<1> QED
  BY <1>6, <1>7, <1>8, <1>9 DEF Tree, Root, Nodes, Inside, Nothing
-----------------------------------------------------------------------------
\* The servers' own steps only add to the path.

Grows ==
    /\ \A n \in 0..Leaf : OnPath[n] \in Nodes => OnPath'[n] = OnPath[n]
    /\ \A x \in 0..MaxNode : kind[x] # "unused" => kind'[x] = kind[x]
    /\ \A x \in 0..MaxNode : entry[x] # Nothing => entry'[x] = entry[x]
    /\ LeftAlone' => LeftAlone

LEMMA GrowsSame ==
    ASSUME UNCHANGED <<kind, entry, changes>>
    PROVE  Grows
<1>1. OnPath' = OnPath
  BY OnPathIs
<1>2. LeftAlone' => LeftAlone
  BY <1>1 DEF LeftAlone, Leaf, Nodes, Nothing
<1> QED
  BY <1>1, <1>2 DEF Grows

LEMMA GrowsMade ==
    ASSUME ToolsInv, Tree, NEW dir \in 0..MaxNode, NEW what \in {"dir", "file"},
           Unused # {}, kind[dir] = "dir", entry[dir] = Nothing, Makes(dir, what),
           UNCHANGED changes, NEW k \in 1..Leaf, changes = 0 => dir = OnPath[k - 1]
    PROVE  changes = 0 => Grows
<1> SUFFICES ASSUME changes = 0 PROVE Grows
  OBVIOUS
<1>1. Fresh \in Inside /\ kind[Fresh] = "unused" /\ entry[Fresh] = Nothing /\ Fresh # dir
  BY FreshInside DEF Tree
<1>2. /\ entry \in [Nodes -> Nodes \union {Nothing, Link}]
      /\ kind \in [Nodes -> {"unused", "dir", "file", "removed"}]
  BY DEF ToolsInv, ToolsTypeOK
<1>3. Entries(entry) /\ Entries(entry')
  <2>1. EntriesInside' /\ entry' \in [Nodes -> Nodes \union {Nothing, Link}]
    BY MakesInside
  <2>2. Tree'
    BY TreeMade
  <2> QED
    BY <2>1, <2>2, TreeEntries DEF EntriesInside, Tree, Entries, Nodes, Inside, Nothing, Link
<1>4. OnPath = PathOf(entry) /\ OnPath' = PathOf(entry') /\ dir = PathOf(entry)[k - 1]
  BY OnPathIs
<1>5. entry' = [entry EXCEPT ![dir] = Fresh] /\ kind' = [kind EXCEPT ![Fresh] = what]
  BY DEF Makes
<1>6. \A n \in 0..Leaf : /\ n < k => OnPath'[n] = OnPath[n]
                         /\ n = k => OnPath'[n] = Fresh
                         /\ n > k => OnPath'[n] = Nothing
                         /\ n >= k => OnPath[n] = Nothing
  <2> DEFINE e == entry
  <2>1. Entries(e) /\ PathOf(e)[k - 1] \in 0..MaxNode /\ e[PathOf(e)[k - 1]] = Nothing
        /\ Fresh # PathOf(e)[k - 1] /\ e[Fresh] = Nothing
    BY <1>1, <1>3, <1>4
  <2> HIDE DEF e
  <2>2. \A n \in 0..Leaf :
            /\ n < k => PathOf([e EXCEPT ![PathOf(e)[k - 1]] = Fresh])[n] = PathOf(e)[n]
            /\ n = k => PathOf([e EXCEPT ![PathOf(e)[k - 1]] = Fresh])[n] = Fresh
            /\ n > k => PathOf([e EXCEPT ![PathOf(e)[k - 1]] = Fresh])[n] = Nothing
            /\ n >= k => PathOf(e)[n] = Nothing
    BY <1>1, <2>1, PathExtended
  <2>3. entry' = [e EXCEPT ![PathOf(e)[k - 1]] = Fresh]
    BY <1>4, <1>5 DEF e
  <2> QED
    BY <1>4, <2>2, <2>3 DEF e
<1>7. Leaf \in Nat /\ k \in Nat /\ \A n \in 0..Leaf : n < k \/ n >= k
  BY NameFacts
<1>8. \A n \in 0..Leaf : OnPath[n] \in Nodes => OnPath'[n] = OnPath[n]
  BY <1>6, <1>7, NodeFacts
<1>9. \A x \in 0..MaxNode : kind[x] # "unused" => kind'[x] = kind[x]
  BY <1>1, <1>2, <1>5, NodeFacts
<1>10. \A x \in 0..MaxNode : entry[x] # Nothing => entry'[x] = entry[x]
  BY <1>2, <1>5, NodeFacts
<1>11. ASSUME LeftAlone'
       PROVE  LeftAlone
  <2> SUFFICES ASSUME NEW n \in 1..Leaf, OnPath[n] # Nothing
               PROVE  /\ OnPath[n] \in Nodes
                      /\ kind[OnPath[n]] = IF n = Leaf THEN "file" ELSE "dir"
    BY DEF LeftAlone
  <2>1. n \in 0..Leaf /\ n < k /\ n - 1 \in 0..Leaf
    BY <1>6, <1>7
  <2>2. OnPath'[n] = OnPath[n] /\ OnPath'[n] # Nothing
    BY <1>6, <2>1
  <2>3. OnPath'[n] \in Nodes /\ kind'[OnPath'[n]] = IF n = Leaf THEN "file" ELSE "dir"
    BY <1>11, <2>2 DEF LeftAlone, Leaf, Nodes, Nothing
  <2>4. OnPath[n] # Fresh
    <3>1. OnPath[n] = IF OnPath[n - 1] \in {Nothing, Link} THEN OnPath[n - 1]
                      ELSE entry[OnPath[n - 1]]
      BY <1>4, PathSteps
    <3>2. OnPath[n - 1] \in (0..MaxNode) \union {Nothing, Link}
      BY <1>3, <1>4, <2>1, PathNodes
    <3>3. OnPath[n - 1] \in 0..MaxNode /\ OnPath[n] = entry[OnPath[n - 1]]
      BY <2>2, <2>3, <3>1, <3>2, NodeFacts
    <3>4. kind[OnPath[n]] # "unused"
      BY <2>2, <2>3, <3>3 DEF Tree
    <3> QED
      BY <1>1, <3>4
  <2>5. kind'[OnPath[n]] = kind[OnPath[n]]
    BY <1>2, <1>5, <2>2, <2>3, <2>4
  <2> QED
    BY <2>2, <2>3, <2>5
<1> QED
  BY <1>8, <1>9, <1>10, <1>11 DEF Grows

\* A step of a server that only adds to the path, and leaves that server where it should be.
LEMMA RaceStep ==
    ASSUME RaceInv, ToolsInv', Tree', UNCHANGED changes, changes = 0 => Grows,
           NEW s \in Servers, \A t \in Servers \ {s} : walk'[t] = walk[t],
           changes = 0 => OnItsPath(walk'[s], OnPath', kind', entry'),
           LeftAlone /\ walk'[s].op = "write" => walk'[s].end \in {"none", "ok"}
    PROVE  RaceInv'
<1>1. WalksOnPath'
  <2> SUFFICES ASSUME changes = 0, NEW t \in Servers
               PROVE  OnItsPath(walk'[t], OnPath', kind', entry')
    BY DEF WalksOnPath
  <2>1. CASE t = s
    BY <2>1
  <2>2. CASE t # s
    <3> DEFINE w == walk[t]
    <3>1. walk'[t] = w
      BY <2>2
    <3>2. OnItsPath(w, OnPath, kind, entry) /\ Grows
      BY DEF RaceInv, WalksOnPath
    <3>3. w.dir \in 0..MaxNode /\ w.dir \in Nodes
      BY WalkFacts, NodeFacts DEF RaceInv
    <3>4. w.step \in {"open", "make", "reopen"} => w.at - 1 \in 0..Leaf
      BY AtOpen, NameFacts DEF RaceInv
    <3> HIDE DEF w
    <3>5. w.step \in {"open", "make", "reopen"} => w.dir = OnPath'[w.at - 1] /\ kind'[w.dir] = "dir"
      BY <3>2, <3>3, <3>4 DEF OnItsPath, Grows
    <3>6. w.step = "reopen" => entry'[w.dir] # Nothing
      BY <3>2, <3>3 DEF OnItsPath, Grows
    <3>7. w.step = "use" /\ w.op = "write" => kind'[w.dir] = "file"
      BY <3>2, <3>3 DEF OnItsPath, Grows
    <3> QED
      BY <3>1, <3>5, <3>6, <3>7 DEF OnItsPath
  <2> QED
    BY <2>1, <2>2
<1>2. CreationRaceIsBenign'
  <2> SUFFICES ASSUME LeftAlone', NEW t \in Servers, walk'[t].op = "write"
               PROVE  walk'[t].end \in {"none", "ok"}
    BY DEF CreationRaceIsBenign
  <2>1. changes = 0
    BY DEF LeftAlone
  <2>2. LeftAlone
    BY <2>1 DEF Grows
  <2>3. CASE t = s
    BY <2>2, <2>3
  <2>4. CASE t # s
    BY <2>2, <2>4 DEF RaceInv, CreationRaceIsBenign
  <2> QED
    BY <2>3, <2>4
<1> QED
  BY <1>1, <1>2 DEF RaceInv
\* What the walk of a server knows of its directory.
LEMMA AtDirectory ==
    ASSUME RaceInv, changes = 0, NEW s \in Servers, walk[s].step \in {"open", "make", "reopen"}
    PROVE  /\ walk[s].dir = OnPath[walk[s].at - 1] /\ kind[walk[s].dir] = "dir"
           /\ walk[s].at \in 1..Leaf /\ walk[s].dir \in 0..MaxNode
           /\ OnPath[walk[s].at] = entry[walk[s].dir]
           /\ walk[s].step = "reopen" => entry[walk[s].dir] # Nothing
<1>1. OnItsPath(walk[s], OnPath, kind, entry)
  BY DEF RaceInv, WalksOnPath
<1>2. walk[s].at \in 1..Leaf /\ walk[s].dir \in 0..MaxNode
  BY AtOpen DEF RaceInv
<1>3. OnPath[walk[s].at] = IF OnPath[walk[s].at - 1] \in {Nothing, Link} THEN OnPath[walk[s].at - 1]
                           ELSE entry[OnPath[walk[s].at - 1]]
  BY <1>2, OnPathIs, PathSteps
<1> QED
  BY <1>1, <1>2, <1>3, NodeFacts DEF OnItsPath

\* With the path as it should be, an entry is missing, a directory, or the file at its end.
LEMMA AloneEntry ==
    ASSUME RaceInv, LeftAlone, NEW s \in Servers, walk[s].step \in {"open", "make", "reopen"},
           entry[walk[s].dir] # Nothing
    PROVE  /\ entry[walk[s].dir] \in Nodes
           /\ kind[entry[walk[s].dir]] = IF walk[s].at = Leaf THEN "file" ELSE "dir"
<1>1. changes = 0
  BY DEF LeftAlone
<1>2. OnPath[walk[s].at] = entry[walk[s].dir] /\ walk[s].at \in 1..Leaf
  BY <1>1, AtDirectory
<1> QED
  BY <1>2 DEF LeftAlone

\* Ending a call.
LEMMA EndRace ==
    ASSUME RaceInv, NEW s \in Servers, NEW end, NEW closed, End(s, end, closed)
    PROVE  /\ walk'[s].step = "idle" /\ walk'[s].op = walk[s].op /\ walk'[s].end = end
           /\ \A t \in Servers \ {s} : walk'[t] = walk[t]
           /\ OnItsPath(walk'[s], OnPath', kind', entry')
<1>1. walk \in [Servers -> Walks]
  BY WalkFacts DEF RaceInv
<1>2. walk'[s] = Over(walk[s].op, walk[s].at, end) /\ \A t \in Servers \ {s} : walk'[t] = walk[t]
  BY <1>1 DEF End
<1>3. walk'[s].step = "idle" /\ walk'[s].op = walk[s].op /\ walk'[s].end = end
  BY <1>2 DEF Over
<1> QED
  BY <1>2, <1>3 DEF OnItsPath

\* Opening a directory on the path.
LEMMA EnterRace ==
    ASSUME RaceInv, NEW s \in Servers, walk[s].step \in {"open", "reopen"},
           walk[s].at \in 1..Depth, UNCHANGED <<kind, entry>>,
           kind[entry[walk[s].dir]] = "dir", EnterDirectory(s, entry[walk[s].dir])
    PROVE  /\ walk'[s].op = walk[s].op /\ walk'[s].end = walk[s].end
           /\ \A t \in Servers \ {s} : walk'[t] = walk[t]
           /\ changes = 0 => OnItsPath(walk'[s], OnPath', kind', entry')
<1>1. walk[s] \in Walks /\ walk \in [Servers -> Walks]
  BY WalkFacts DEF RaceInv
<1>2. walk'[s] = [walk[s] EXCEPT !.at = walk[s].at + 1, !.dir = entry[walk[s].dir],
                                 !.step = "open"]
      /\ \A t \in Servers \ {s} : walk'[t] = walk[t]
  BY <1>1 DEF EnterDirectory
<1>3. /\ walk'[s].op = walk[s].op /\ walk'[s].end = walk[s].end /\ walk'[s].step = "open"
      /\ walk'[s].at = walk[s].at + 1 /\ walk'[s].dir = entry[walk[s].dir]
  BY <1>1, <1>2 DEF Walks
<1>4. changes = 0 => walk'[s].dir = OnPath'[walk'[s].at - 1]
  <2>1. (walk[s].at + 1) - 1 = walk[s].at
    BY NameFacts
  <2> QED
    BY <1>3, <2>1, AtDirectory, OnPathIs
<1> QED
  BY <1>2, <1>3, <1>4 DEF OnItsPath

LEMMA WalkStepRace ==
    ASSUME RaceInv, NEW s \in Servers, walk[s].step = "open" \/ walk[s].step = "make",
           NEW step \in {"make", "reopen"}, walk' = [walk EXCEPT ![s].step = step],
           changes = 0 => Grows, step = "reopen" => entry'[walk[s].dir] # Nothing
    PROVE  /\ walk'[s].op = walk[s].op /\ walk'[s].end = walk[s].end
           /\ \A t \in Servers \ {s} : walk'[t] = walk[t]
           /\ changes = 0 => OnItsPath(walk'[s], OnPath', kind', entry')
<1>1. walk[s] \in Walks /\ walk \in [Servers -> Walks]
  BY WalkFacts DEF RaceInv
<1>2. /\ walk'[s] = [walk[s] EXCEPT !.step = step]
      /\ \A t \in Servers \ {s} : walk'[t] = walk[t]
  BY <1>1
<1>3. /\ walk'[s].op = walk[s].op /\ walk'[s].end = walk[s].end /\ walk'[s].step = step
      /\ walk'[s].at = walk[s].at /\ walk'[s].dir = walk[s].dir
  BY <1>1, <1>2 DEF Walks
<1>4. ASSUME changes = 0
      PROVE  walk[s].dir = OnPath'[walk[s].at - 1] /\ kind'[walk[s].dir] = "dir"
  <2>1. /\ walk[s].dir = OnPath[walk[s].at - 1] /\ kind[walk[s].dir] = "dir"
        /\ walk[s].at \in 1..Leaf /\ walk[s].dir \in 0..MaxNode
    BY <1>4, AtDirectory
  <2>2. walk[s].at - 1 \in 0..Leaf /\ walk[s].dir \in Nodes
    BY <2>1, NameFacts, NodeFacts
  <2> QED
    BY <1>4, <2>1, <2>2 DEF Grows
<1> QED
  BY <1>2, <1>3, <1>4 DEF OnItsPath

LEMMA ResolveRace ==
    ASSUME RaceInv, ToolsInv', NEW s \in Servers, NEW op \in {"read", "write"}, Resolve(s, op)
    PROVE  RaceInv'
<1>1. UNCHANGED <<kind, entry, changes>> /\ walk \in [Servers -> Walks]
  BY WalkFacts DEF Resolve, RaceInv
<1>2. Grows /\ Tree'
  BY <1>1, GrowsSame, TreeSame DEF RaceInv
<1>3. CASE Escapes
  <2>1. walk'[s] = Over(op, 0, "denied") /\ \A t \in Servers \ {s} : walk'[t] = walk[t]
    BY <1>1, <1>3 DEF Resolve
  <2>2. ~LeftAlone
    BY <1>3, NameFacts, NodeFacts DEF LeftAlone, Escapes
  <2>3. OnItsPath(walk'[s], OnPath', kind', entry')
    BY <2>1 DEF OnItsPath, Over
  <2> QED
    BY <1>1, <1>2, <2>1, <2>2, <2>3, RaceStep
<1>4. CASE ~Escapes
  <2>1. /\ walk'[s] = [op |-> op, step |-> "open", at |-> 1, dir |-> Root, end |-> "none"]
        /\ \A t \in Servers \ {s} : walk'[t] = walk[t]
    BY <1>1, <1>4 DEF Resolve
  <2>2. OnPath'[0] = Root /\ kind'[Root] = "dir" /\ 1 - 1 = 0
    BY <1>1, OnPathIs, PathSteps DEF RaceInv, Tree
  <2>3. OnItsPath(walk'[s], OnPath', kind', entry')
    BY <2>1, <2>2 DEF OnItsPath
  <2>4. walk'[s].end = "none"
    BY <2>1
  <2> QED
    BY <1>1, <1>2, <2>1, <2>3, <2>4, RaceStep
<1> QED
  BY <1>3, <1>4

LEMMA OpenDirectoryRace ==
    ASSUME RaceInv, ToolsInv', NEW s \in Servers, OpenDirectory(s)
    PROVE  RaceInv'
<1> DEFINE next == entry[walk[s].dir]
<1>1. /\ UNCHANGED <<kind, entry, calls, changes>> /\ walk[s].step = "open"
      /\ walk[s].at <= Depth
  BY DEF OpenDirectory, IsDirectoryName
<1>2. walk[s].at \in 1..Depth /\ walk[s].at # Leaf
  BY <1>1, AtOpen, NameFacts DEF RaceInv
<1>3. Grows /\ Tree'
  BY <1>1, GrowsSame, TreeSame DEF RaceInv
<1>4. walk[s].op = "write" /\ LeftAlone => walk[s].end \in {"none", "ok"}
  BY DEF RaceInv, CreationRaceIsBenign
<1>5. CASE next = Nothing /\ walk' = [walk EXCEPT ![s].step = "make"]
  BY <1>1, <1>3, <1>4, <1>5, WalkStepRace, RaceStep
<1>6. ASSUME NEW end, End(s, end, {0}), LeftAlone => walk[s].op # "write"
      PROVE  RaceInv'
  BY <1>1, <1>3, <1>6, EndRace, RaceStep
<1>7. CASE next = Nothing /\ walk[s].op = "read" /\ End(s, "failed", {0})
  BY <1>6, <1>7
<1>8. CASE (next = Link \/ (next \in Nodes /\ kind[next] = "file")) /\ End(s, "denied", {0})
  <2>1. ~LeftAlone
    BY <1>1, <1>2, <1>8, AloneEntry, NodeFacts
  <2> QED
    BY <1>6, <1>8, <2>1
<1>9. CASE next \in Nodes /\ kind[next] = "dir" /\ EnterDirectory(s, next)
  BY <1>1, <1>2, <1>3, <1>4, <1>9, EnterRace, RaceStep
<1> QED
  BY <1>5, <1>7, <1>8, <1>9 DEF OpenDirectory, OpenAt
LEMMA MakeDirectoryRace ==
    ASSUME RaceInv, ToolsInv', NEW s \in Servers, MakeDirectory(s)
    PROVE  RaceInv'
<1> DEFINE dir == walk[s].dir
<1>1. UNCHANGED changes /\ walk[s].step = "make" /\ ToolsInv /\ Tree
  BY DEF MakeDirectory, RaceInv
<1>2. walk[s].at \in 1..Leaf /\ dir \in 0..MaxNode
  BY <1>1, AtOpen
<1>3. walk[s].op = "write" /\ LeftAlone => walk[s].end \in {"none", "ok"}
  BY DEF RaceInv, CreationRaceIsBenign
<1>4. CASE kind[dir] = "removed" /\ End(s, "failed", {0}) /\ UNCHANGED <<kind, entry>>
  <2>1. Grows /\ Tree'
    BY <1>1, <1>4, GrowsSame, TreeSame
  <2>2. ~LeftAlone
    BY <1>1, <1>4, AtDirectory DEF LeftAlone
  <2> QED
    BY <1>1, <1>4, <2>1, <2>2, EndRace, RaceStep
<1>5. CASE entry[dir] # Nothing /\ walk' = [walk EXCEPT ![s].step = "reopen"]
           /\ UNCHANGED <<kind, entry>>
  <2>1. Grows /\ Tree'
    BY <1>1, <1>5, GrowsSame, TreeSame
  <2>2. entry'[dir] # Nothing
    BY <1>5
  <2>3. /\ walk'[s].op = walk[s].op /\ walk'[s].end = walk[s].end
        /\ \A t \in Servers \ {s} : walk'[t] = walk[t]
        /\ changes = 0 => OnItsPath(walk'[s], OnPath', kind', entry')
    BY <1>1, <1>5, <2>1, <2>2, WalkStepRace
  <2> QED
    BY <1>1, <1>3, <2>1, <2>3, RaceStep
<1>6. CASE /\ kind[dir] = "dir" /\ entry[dir] = Nothing /\ Unused # {}
           /\ Makes(dir, "dir") /\ walk' = [walk EXCEPT ![s].step = "reopen"]
  <2>1. changes = 0 => dir = OnPath[walk[s].at - 1]
    BY <1>1, AtDirectory
  <2>2. changes = 0 => Grows
    BY <1>1, <1>2, <1>6, <2>1, GrowsMade
  <2>3. Tree'
    BY <1>1, <1>2, <1>6, TreeMade
  <2>4. entry'[dir] # Nothing
    <3>1. entry \in [Nodes -> Nodes \union {Nothing, Link}] /\ dir \in Nodes
          /\ Fresh \in Inside
      BY <1>1, <1>2, <1>6, NodeFacts, FreshInside DEF ToolsInv, ToolsTypeOK
    <3>2. entry'[dir] = Fresh
      BY <1>6, <3>1 DEF Makes
    <3> QED
      BY <3>1, <3>2, NodeFacts
  <2>5. /\ walk'[s].op = walk[s].op /\ walk'[s].end = walk[s].end
        /\ \A t \in Servers \ {s} : walk'[t] = walk[t]
        /\ changes = 0 => OnItsPath(walk'[s], OnPath', kind', entry')
    BY <1>1, <1>6, <2>2, <2>4, WalkStepRace
  <2> QED
    BY <1>1, <1>3, <2>2, <2>3, <2>5, RaceStep
<1> QED
  BY <1>4, <1>5, <1>6 DEF MakeDirectory, Makes

LEMMA ReopenDirectoryRace ==
    ASSUME RaceInv, ToolsInv', NEW s \in Servers, ReopenDirectory(s)
    PROVE  RaceInv'
<1> DEFINE next == entry[walk[s].dir]
<1>1. UNCHANGED <<kind, entry, changes>> /\ walk[s].step = "reopen"
  BY DEF ReopenDirectory
<1>2. walk[s].at \in 1..Depth /\ walk[s].at # Leaf
  BY <1>1, AtOpen, NameFacts DEF RaceInv
<1>3. Grows /\ Tree'
  BY <1>1, GrowsSame, TreeSame DEF RaceInv
<1>4. walk[s].op = "write" /\ LeftAlone => walk[s].end \in {"none", "ok"}
  BY DEF RaceInv, CreationRaceIsBenign
<1>5. CASE next \in Nodes /\ kind[next] = "dir" /\ EnterDirectory(s, next)
  BY <1>1, <1>2, <1>3, <1>4, <1>5, EnterRace, RaceStep
<1>6. CASE ~(next \in Nodes /\ kind[next] = "dir") /\ End(s, "failed", {0})
  <2>1. ~LeftAlone
    BY <1>1, <1>2, <1>6, AtDirectory, AloneEntry DEF LeftAlone
  <2> QED
    BY <1>1, <1>3, <1>6, <2>1, EndRace, RaceStep
<1> QED
  BY <1>5, <1>6 DEF ReopenDirectory, OpenAt

LEMMA OpenLeafRace ==
    ASSUME RaceInv, ToolsInv', NEW s \in Servers, OpenLeaf(s)
    PROVE  RaceInv'
<1> DEFINE dir == walk[s].dir
           next == entry[dir]
           Opened(node) == walk' = [walk EXCEPT ![s].step = "use", ![s].dir = node]
<1>1. /\ UNCHANGED changes /\ walk[s].step = "open" /\ ~(walk[s].at <= Depth)
      /\ ToolsInv /\ Tree
  BY DEF OpenLeaf, IsDirectoryName, RaceInv
<1>2. walk[s].at = Leaf /\ dir \in 0..MaxNode /\ Leaf \in 1..Leaf
  BY <1>1, AtOpen, NameFacts
<1>3. walk[s].op = "write" /\ LeftAlone => walk[s].end \in {"none", "ok"}
  BY DEF RaceInv, CreationRaceIsBenign
<1>4. ASSUME UNCHANGED <<kind, entry>> PROVE Grows /\ Tree'
  BY <1>1, <1>4, GrowsSame, TreeSame
<1>5. ASSUME NEW node, Opened(node), walk[s].op = "write" => kind'[node] = "file"
      PROVE  /\ walk'[s].op = walk[s].op /\ walk'[s].end = walk[s].end
             /\ \A t \in Servers \ {s} : walk'[t] = walk[t]
             /\ OnItsPath(walk'[s], OnPath', kind', entry')
  <2>1. walk[s] \in Walks /\ walk \in [Servers -> Walks]
    BY <1>1, WalkFacts
  <2>2. /\ walk'[s] = [walk[s] EXCEPT !.step = "use", !.dir = node]
        /\ \A t \in Servers \ {s} : walk'[t] = walk[t]
    BY <1>5, <2>1
  <2>3. /\ walk'[s].op = walk[s].op /\ walk'[s].end = walk[s].end
        /\ walk'[s].step = "use" /\ walk'[s].dir = node
    BY <2>1, <2>2 DEF Walks
  <2> QED
    BY <1>5, <2>2, <2>3 DEF OnItsPath
<1>6. ASSUME NEW end, End(s, end, {0, Depth}), UNCHANGED <<kind, entry>>,
             LeftAlone => walk[s].op # "write"
      PROVE  RaceInv'
  BY <1>1, <1>4, <1>6, EndRace, RaceStep
<1>7. CASE /\ next \in Nodes /\ (kind[next] = "file" \/ walk[s].op = "read")
           /\ Opened(next) /\ UNCHANGED <<kind, entry>>
  <2>1. walk[s].op = "write" => kind'[next] = "file"
    BY <1>7
  <2> HIDE DEF Opened, next
  <2> QED
    BY <1>1, <1>3, <1>4, <1>5, <1>7, <2>1, RaceStep
<1>8. CASE /\ next \in Nodes /\ kind[next] = "dir" /\ walk[s].op = "write"
           /\ End(s, "failed", {0, Depth}) /\ UNCHANGED <<kind, entry>>
  <2>1. ~LeftAlone
    BY <1>1, <1>2, <1>8, AloneEntry, NodeFacts
  <2> QED
    BY <1>6, <1>8, <2>1
<1>9. CASE next = Link /\ End(s, "denied", {0, Depth}) /\ UNCHANGED <<kind, entry>>
  <2>1. ~LeftAlone
    BY <1>1, <1>9, AloneEntry, NodeFacts
  <2> QED
    BY <1>6, <1>9, <2>1
<1>10. CASE /\ next = Nothing /\ (walk[s].op = "read" \/ kind[dir] = "removed")
            /\ End(s, "failed", {0, Depth}) /\ UNCHANGED <<kind, entry>>
  <2>1. LeftAlone => walk[s].op = "read"
    BY <1>1, <1>10, AtDirectory DEF LeftAlone
  <2> QED
    BY <1>6, <1>10, <2>1
<1>11. CASE /\ next = Nothing /\ kind[dir] = "dir" /\ Unused # {}
            /\ Makes(dir, "file") /\ Opened(Fresh)
  <2>1. changes = 0 => dir = OnPath[Leaf - 1]
    BY <1>1, <1>2, AtDirectory
  <2>2. changes = 0 => Grows
    BY <1>1, <1>2, <1>11, <2>1, GrowsMade
  <2>3. Tree'
    BY <1>1, <1>2, <1>11, TreeMade
  <2>4. kind'[Fresh] = "file"
    <3>1. kind \in [Nodes -> {"unused", "dir", "file", "removed"}] /\ Fresh \in Nodes
      BY <1>1, <1>11, NodeFacts, FreshInside DEF ToolsInv, ToolsTypeOK
    <3> QED
      BY <1>11, <3>1 DEF Makes
  <2>5. /\ walk'[s].op = walk[s].op /\ walk'[s].end = walk[s].end
        /\ \A t \in Servers \ {s} : walk'[t] = walk[t]
        /\ OnItsPath(walk'[s], OnPath', kind', entry')
    BY <1>5, <1>11, <2>4
  <2> QED
    BY <1>1, <1>3, <2>2, <2>3, <2>5, RaceStep
<1> QED
  BY <1>7, <1>8, <1>9, <1>10, <1>11 DEF OpenLeaf, OpenAt, Makes

LEMMA UseLeafRace ==
    ASSUME RaceInv, ToolsInv', NEW s \in Servers, UseLeaf(s)
    PROVE  RaceInv'
<1>1. UNCHANGED <<kind, entry, changes>> /\ walk[s].step = "use"
  BY DEF UseLeaf
<1>2. Grows /\ Tree'
  BY <1>1, GrowsSame, TreeSame DEF RaceInv
<1>3. ASSUME NEW end, NEW closed, End(s, end, closed),
             LeftAlone /\ walk[s].op = "write" => end = "ok"
      PROVE  RaceInv'
  BY <1>1, <1>2, <1>3, EndRace, RaceStep
<1>4. LeftAlone /\ walk[s].op = "write" => kind[walk[s].dir] = "file"
  BY <1>1 DEF LeftAlone, RaceInv, WalksOnPath, OnItsPath
<1> QED
  BY <1>3, <1>4 DEF UseLeaf

\* Another program's change is counted.
LEMMA OtherProgramsRace ==
    ASSUME RaceInv, ToolsInv', NEW dir \in 0..MaxNode,
           \/ MoveAway(dir)
           \/ RemoveDirectory(dir)
           \/ PutLink(dir)
           \/ \E what \in {"dir", "file"} : PutNode(dir, what)
    PROVE  RaceInv'
<1>1. /\ entry \in [Nodes -> Nodes \union {Nothing, Link}]
      /\ kind \in [Nodes -> {"unused", "dir", "file", "removed"}]
      /\ EntriesInside /\ ToolsInv /\ Tree
      /\ changes \in Nat
  BY GovernedToolsAssumption DEF RaceInv, ToolsInv, ToolsTypeOK
<1>2. Meddles
  BY DEF MoveAway, RemoveDirectory, PutLink, PutNode
<1>3. changes' # 0
  BY <1>1, <1>2 DEF Meddles
<1>4. WalksOnPath' /\ CreationRaceIsBenign'
  BY <1>3 DEF WalksOnPath, CreationRaceIsBenign, LeftAlone
<1>5. /\ Root \in 0..MaxNode /\ 0..MaxNode \subseteq Nodes /\ Inside \subseteq 0..MaxNode
      /\ Root \notin Inside /\ dir \in Nodes
  BY NodeFacts, GovernedToolsAssumption DEF Root, Inside
<1>6. ASSUME NEW e \in {Nothing, Link}, entry' = [entry EXCEPT ![dir] = e], UNCHANGED kind,
             e = Link => kind[dir] = "dir"
      PROVE  Tree'
  <2>1. /\ entry'[dir] = e /\ \A x \in Nodes : x # dir => entry'[x] = entry[x]
    BY <1>1, <1>5, <1>6
  <2>2. \A x \in 0..MaxNode : entry'[x] \in Nodes => entry'[x] = entry[x] /\ entry[x] \in Nodes
    BY <1>5, <2>1, NodeFacts
  <2>3. \A x \in 0..MaxNode : entry'[x] \in Nodes => kind'[entry'[x]] # "unused"
    BY <1>1, <1>6, <2>2 DEF Tree
  <2>4. \A x \in Inside : kind'[x] = "unused" => entry'[x] = Nothing
    BY <1>1, <1>5, <1>6, <2>1 DEF Tree
  <2>5. \A x, y \in 0..MaxNode : entry'[x] = entry'[y] /\ entry'[x] \in Nodes => x = y
    BY <1>1, <2>2 DEF Tree
  <2>6. kind'[Root] = "dir"
    BY <1>1, <1>6 DEF Tree
  <2> QED
    BY <2>3, <2>4, <2>5, <2>6 DEF Tree, Root, Nodes, Inside, Nothing
<1>7. CASE MoveAway(dir)
  <2>1. Tree'
    BY <1>6, <1>7, NodeFacts DEF MoveAway
  <2> QED
    BY <1>4, <2>1 DEF RaceInv
<1>8. CASE RemoveDirectory(dir)
  <2>1. /\ entry[dir] \in Inside /\ entry[dir] \in Nodes /\ kind[entry[dir]] = "dir"
        /\ kind' = [kind EXCEPT ![entry[dir]] = "removed"]
        /\ entry' = [entry EXCEPT ![dir] = Nothing]
    BY <1>1, <1>8, NodeFacts DEF RemoveDirectory, EntriesInside
  <2>2. /\ entry'[dir] = Nothing /\ \A x \in Nodes : x # dir => entry'[x] = entry[x]
        /\ kind'[entry[dir]] = "removed" /\ \A x \in Nodes : x # entry[dir] => kind'[x] = kind[x]
    BY <1>1, <1>5, <2>1
  <2>3. \A x \in 0..MaxNode : entry'[x] \in Nodes => entry'[x] = entry[x] /\ entry[x] \in Nodes
    BY <1>5, <2>2, NodeFacts
  <2>4. \A x \in Nodes : kind'[x] = "unused" <=> kind[x] = "unused"
    BY <2>1, <2>2
  <2>5. \A x \in 0..MaxNode : entry'[x] \in Nodes => kind'[entry'[x]] # "unused"
    BY <1>1, <2>3, <2>4 DEF Tree
  <2>6. \A x \in Inside : kind'[x] = "unused" => entry'[x] = Nothing
    BY <1>1, <1>5, <2>2, <2>4 DEF Tree
  <2>7. \A x, y \in 0..MaxNode : entry'[x] = entry'[y] /\ entry'[x] \in Nodes => x = y
    BY <1>1, <2>3 DEF Tree
  <2>8. kind'[Root] = "dir"
    BY <1>1, <1>5, <2>1, <2>2 DEF Tree
  <2>9. Tree'
    BY <2>5, <2>6, <2>7, <2>8 DEF Tree, Root, Nodes, Inside, Nothing
  <2> QED
    BY <1>4, <2>9 DEF RaceInv
<1>9. CASE PutLink(dir)
  <2>1. Tree'
    BY <1>6, <1>9 DEF PutLink
  <2> QED
    BY <1>4, <2>1 DEF RaceInv
<1>10. ASSUME NEW what \in {"dir", "file"}, PutNode(dir, what)
       PROVE  RaceInv'
  <2>1. Unused # {} /\ kind[dir] = "dir" /\ entry[dir] = Nothing /\ Makes(dir, what)
    BY <1>10 DEF PutNode, Makes
  <2>2. Tree'
    BY <1>1, <2>1, TreeMade
  <2> QED
    BY <1>4, <2>2 DEF RaceInv
<1> QED
  BY <1>7, <1>8, <1>9, <1>10

LEMMA RaceInitInv == ToolsInit => RaceInv
<1> SUFFICES ASSUME ToolsInit PROVE RaceInv
  OBVIOUS
<1>1. PICK n \in 0..Depth, last \in {"nothing", "link", "file", "dir"} :
        /\ last = "dir" => n = Depth
        /\ kind = [x \in Nodes |->
                      IF x <= n \/ x = Out THEN "dir"
                      ELSE IF x = OutFile THEN "file"
                      ELSE IF x = n + 1 /\ last \in {"file", "dir"} THEN last ELSE "unused"]
        /\ entry = [x \in Nodes |->
                      IF x < n THEN x + 1
                      ELSE IF x = n /\ last = "link" THEN Link
                      ELSE IF x = n /\ last \in {"file", "dir"} THEN n + 1
                      ELSE IF x = Out THEN OutFile
                      ELSE Nothing]
        /\ walk = [s \in Servers |-> Idle]
  BY DEF ToolsInit
<1>2. n \in Nat /\ n + 1 \in 0..MaxNode /\ n + 1 \in Nodes /\ 0..MaxNode \subseteq Nodes
      /\ Inside \subseteq 0..MaxNode
      /\ \A x \in 0..MaxNode : x \in Nat /\ x # Out /\ x # OutFile
  BY NameFacts, NodeFacts, GovernedToolsAssumption DEF Nodes
<1>3. \A x \in 0..MaxNode :
          /\ entry[x] = IF x < n THEN x + 1
                        ELSE IF x = n /\ last = "link" THEN Link
                        ELSE IF x = n /\ last \in {"file", "dir"} THEN n + 1
                        ELSE Nothing
          /\ kind[x] = IF x <= n THEN "dir"
                       ELSE IF x = n + 1 /\ last \in {"file", "dir"} THEN last ELSE "unused"
  BY <1>1, <1>2
<1>4. Nothing \notin Nodes /\ Link \notin Nodes
  BY NodeFacts
<1>5. kind[Root] = "dir"
  <2>1. Root \in 0..MaxNode /\ Root <= n
    BY <1>2, NodeFacts DEF Root
  <2> QED
    BY <1>3, <2>1
<1>6. \A x \in 0..MaxNode : entry[x] \in Nodes =>
          entry[x] = x + 1 /\ (x < n \/ (x = n /\ last \in {"file", "dir"}))
  BY <1>2, <1>3, <1>4
<1>7. \A x \in 0..MaxNode : entry[x] \in Nodes => kind[entry[x]] # "unused"
  <2> SUFFICES ASSUME NEW x \in 0..MaxNode, entry[x] \in Nodes
               PROVE  kind[x + 1] # "unused"
    BY <1>6
  <2>1. x < n \/ (x = n /\ last \in {"file", "dir"})
    BY <1>6
  <2>2. CASE x < n
    <3>1. x + 1 \in 0..MaxNode /\ x + 1 <= n
      BY <1>2, <2>2, GovernedToolsAssumption
    <3> QED
      BY <1>3, <3>1
  <2>3. CASE x = n /\ last \in {"file", "dir"}
    <3>1. x + 1 = n + 1 /\ ~(n + 1 <= n) /\ n + 1 \in 0..MaxNode
      BY <1>2, <2>3
    <3> QED
      BY <1>3, <2>3, <3>1
  <2> QED
    BY <2>1, <2>2, <2>3
<1>8. \A x \in Inside : kind[x] = "unused" => entry[x] = Nothing
  BY <1>2, <1>3
<1>9. \A x, y \in 0..MaxNode : entry[x] = entry[y] /\ entry[x] \in Nodes => x = y
  BY <1>2, <1>6
<1>10. Tree
  BY <1>5, <1>7, <1>8, <1>9 DEF Tree
<1>11. \A s \in Servers : walk[s].step = "idle" /\ walk[s].end = "none"
  BY <1>1 DEF Idle, Over
<1>12. WalksOnPath /\ CreationRaceIsBenign
  BY <1>11 DEF WalksOnPath, OnItsPath, CreationRaceIsBenign
<1> QED
  BY <1>10, <1>12, ToolsInitInv DEF RaceInv

LEMMA RaceNext == RaceInv /\ [ToolsNext]_toolVars => RaceInv'
<1> SUFFICES ASSUME RaceInv, [ToolsNext]_toolVars PROVE RaceInv'
  OBVIOUS
<1>1. ToolsInv'
  BY ToolsStep DEF RaceInv
<1>2. CASE UNCHANGED toolVars
  <2>1. UNCHANGED <<kind, entry, walk, changes>>
    BY <1>2 DEF toolVars
  <2>2. Tree' /\ OnPath' = OnPath
    BY <2>1, TreeSame, OnPathIs DEF RaceInv
  <2>3. WalksOnPath'
    BY <2>1, <2>2 DEF RaceInv, WalksOnPath
  <2>4. LeftAlone' => LeftAlone
    BY <2>1, GrowsSame DEF Grows
  <2>5. CreationRaceIsBenign'
    BY <2>1, <2>4 DEF RaceInv, CreationRaceIsBenign
  <2> QED
    BY <1>1, <2>2, <2>3, <2>5 DEF RaceInv
<1> QED
  BY <1>1, <1>2, ResolveRace, OpenDirectoryRace, MakeDirectoryRace, ReopenDirectoryRace,
     OpenLeafRace, UseLeafRace, OtherProgramsRace DEF ToolsNext

\* However many servers make the directories of one path at once, no write fails by it.
THEOREM RacesAreBenign == ToolsSpec => []CreationRaceIsBenign
<1>1. RaceInv => CreationRaceIsBenign
  BY DEF RaceInv
<1> QED
  BY <1>1, RaceInitInv, RaceNext, PTL DEF ToolsSpec
-----------------------------------------------------------------------------
\* A walk always comes to its end.

\* What a name leads to is there, and a walk is in a directory, if a removed one.
EntriesLive == \A x \in 0..MaxNode : entry[x] \in Nodes => kind[entry[x]] \in {"dir", "file"}

WalkLive(w, kinds) ==
    w.step \in {"open", "make", "reopen"} => /\ w.op \in {"read", "write"}
                                            /\ kinds[w.dir] \in {"dir", "removed"}

LiveInv == RaceInv /\ EntriesLive /\ \A s \in Servers : WalkLive(walk[s], kind)

\* The guards of the five system calls; a call that makes an inode needs one.
CanWalk(s) ==
    LET dir == walk[s].dir
        next == OpenAt(dir, walk[s].at)
        Found == next = Link \/ (next \in Nodes /\ kind[next] \in {"dir", "file"})
        CanMake == kind[dir] = "dir" /\ entry[dir] = Nothing /\ Unused # {}
    IN  \/ /\ walk[s].step = "open" /\ walk[s].at <= Depth                \* OpenDirectory
           /\ Found \/ (next = Nothing /\ walk[s].op \in {"read", "write"})
        \/ /\ walk[s].step = "make"                                      \* MakeDirectory
           /\ kind[dir] = "removed" \/ entry[dir] # Nothing \/ CanMake
        \/ walk[s].step = "reopen"                                       \* ReopenDirectory
        \/ /\ walk[s].step = "open" /\ walk[s].at > Depth                \* OpenLeaf
           /\ \/ Found
              \/ next = Nothing /\ (walk[s].op = "read" \/ kind[dir] = "removed")
              \/ walk[s].op = "write" /\ CanMake
        \/ walk[s].step = "use"                                          \* UseLeaf

WalksGoOn == \A s \in Servers : walk[s].step # "idle" => CanWalk(s) \/ Unused = {}

\* The system calls a walk has before it at most.
StepsLeft(w) ==
    CASE w.step = "open" -> 3 * (Leaf - w.at) + 2
      [] w.step = "make" -> 3 * (Leaf - w.at) + 1
      [] w.step = "reopen" -> 3 * (Leaf - w.at)
      [] w.step = "use" -> 1
      [] OTHER -> 0

WalkStep(s) ==
    OpenDirectory(s) \/ MakeDirectory(s) \/ ReopenDirectory(s) \/ OpenLeaf(s) \/ UseLeaf(s)

Nearer ==
    \A s \in Servers :
        /\ WalkStep(s) => StepsLeft(walk'[s]) < StepsLeft(walk[s])
        /\ ~WalkStep(s) /\ walk[s].step # "idle" => walk'[s] = walk[s]
WalksComeNearer == [][Nearer]_toolVars

WalksAreShort == \A s \in Servers : StepsLeft(walk[s]) \in 0..(3 * Depth + 2)

\* What a system call can make of a walk.
BecomesIn(w, v, kinds) ==
    \/ v.step = "idle"
    \/ v.step = "use" /\ w.step = "open" /\ w.at = Leaf
    \/ /\ <<w.step, v.step>> \in {<<"open", "make">>, <<"make", "reopen">>}
       /\ v.at = w.at /\ v.dir = w.dir /\ v.op = w.op
    \/ /\ w.step \in {"open", "reopen"} /\ v.step = "open"
       /\ w.at <= Depth /\ v.at = w.at + 1
       /\ kinds[v.dir] = "dir" /\ v.op = w.op

LEMMA EndBecomes ==
    ASSUME ToolsInv, NEW s \in Servers, NEW end, NEW closed, End(s, end, closed)
    PROVE  walk' = [walk EXCEPT ![s] = walk'[s]] /\ walk'[s].step = "idle"
<1>1. walk \in [Servers -> Walks] /\ walk' = [walk EXCEPT ![s] = Over(walk[s].op, walk[s].at, end)]
  BY WalkFacts DEF End
<1> QED
  BY <1>1 DEF Over

LEMMA EnterBecomes ==
    ASSUME ToolsInv, NEW s \in Servers, NEW node, EnterDirectory(s, node)
    PROVE  /\ walk' = [walk EXCEPT ![s] = walk'[s]]
           /\ walk'[s].step = "open" /\ walk'[s].at = walk[s].at + 1
           /\ walk'[s].dir = node /\ walk'[s].op = walk[s].op
<1> DEFINE w == [walk[s] EXCEPT !.at = walk[s].at + 1, !.dir = node, !.step = "open"]
<1>1. walk[s] \in Walks /\ walk \in [Servers -> Walks]
  BY WalkFacts
<1>2. walk' = [walk EXCEPT ![s] = w]
  BY <1>1 DEF EnterDirectory
<1>3. w.step = "open" /\ w.at = walk[s].at + 1 /\ w.dir = node /\ w.op = walk[s].op
  BY <1>1 DEF Walks
<1>4. walk'[s] = w
  BY <1>1, <1>2
<1> HIDE DEF w
<1> QED
  BY <1>2, <1>3, <1>4

LEMMA StepBecomes ==
    ASSUME ToolsInv, NEW s \in Servers, NEW step, walk' = [walk EXCEPT ![s].step = step]
    PROVE  /\ walk' = [walk EXCEPT ![s] = walk'[s]]
           /\ walk'[s].step = step /\ walk'[s].at = walk[s].at
           /\ walk'[s].dir = walk[s].dir /\ walk'[s].op = walk[s].op
<1>1. walk[s] \in Walks /\ walk \in [Servers -> Walks]
  BY WalkFacts
<1> QED
  BY <1>1 DEF Walks

Becomes(s) == walk' = [walk EXCEPT ![s] = walk'[s]] /\ BecomesIn(walk[s], walk'[s], kind)

LEMMA StepOfWalk ==
    ASSUME ToolsInv, NEW s \in Servers, WalkStep(s)
    PROVE  Becomes(s)
<1> DEFINE next == OpenAt(walk[s].dir, walk[s].at)
<1>0. ASSUME NEW end, NEW closed, End(s, end, closed)
      PROVE  Becomes(s)
  BY <1>0, EndBecomes DEF BecomesIn, Becomes
<1>1. ASSUME walk[s].step \in {"open", "reopen"}, walk[s].at <= Depth,
             EnterDirectory(s, next), kind[next] = "dir"
      PROVE  Becomes(s)
  <2> HIDE DEF next
  <2> QED
    BY <1>1, EnterBecomes DEF BecomesIn, Becomes
<1>2. CASE OpenDirectory(s)
  <2>1. walk[s].step = "open" /\ walk[s].at <= Depth
    BY <1>2 DEF OpenDirectory, IsDirectoryName
  <2>2. CASE walk' = [walk EXCEPT ![s].step = "make"]
    BY <2>1, <2>2, StepBecomes DEF BecomesIn, Becomes
  <2>3. CASE EnterDirectory(s, next) /\ kind[next] = "dir"
    BY <1>1, <2>1, <2>3
  <2> QED
    BY <1>0, <1>2, <2>2, <2>3 DEF OpenDirectory
<1>3. CASE MakeDirectory(s)
  <2>1. walk[s].step = "make"
    BY <1>3 DEF MakeDirectory
  <2>2. CASE walk' = [walk EXCEPT ![s].step = "reopen"]
    BY <2>1, <2>2, StepBecomes DEF BecomesIn, Becomes
  <2> QED
    BY <1>0, <1>3, <2>2 DEF MakeDirectory
<1>4. CASE ReopenDirectory(s)
  <2>1. walk[s].step = "reopen"
    BY <1>4 DEF ReopenDirectory
  <2>2. walk[s].at <= Depth
    BY <2>1, AtOpen, NameFacts
  <2>3. CASE EnterDirectory(s, next) /\ kind[next] = "dir"
    BY <1>1, <2>1, <2>2, <2>3
  <2> QED
    BY <1>0, <1>4, <2>3 DEF ReopenDirectory
<1>5. CASE OpenLeaf(s)
  <2>1. walk[s].step = "open" /\ ~(walk[s].at <= Depth)
    BY <1>5 DEF OpenLeaf, IsDirectoryName
  <2>2. walk[s].at = Leaf
    BY <2>1, AtOpen, NameFacts
  <2>3. ASSUME NEW node, walk' = [walk EXCEPT ![s].step = "use", ![s].dir = node]
        PROVE  Becomes(s)
    <3>1. walk[s] \in Walks /\ walk \in [Servers -> Walks]
      BY WalkFacts
    <3>2. walk' = [walk EXCEPT ![s] = walk'[s]] /\ walk'[s].step = "use"
      BY <2>3, <3>1 DEF Walks
    <3> QED
      BY <2>1, <2>2, <3>2 DEF BecomesIn, Becomes
  <2> QED
    BY <1>0, <1>5, <2>3 DEF OpenLeaf
<1>6. CASE UseLeaf(s)
  BY <1>0, <1>6 DEF UseLeaf
<1> QED
  BY <1>2, <1>3, <1>4, <1>5, <1>6 DEF WalkStep

\* Each of them leaves fewer to make.
LEMMA FewerAfter ==
    ASSUME NEW w, NEW v, NEW kinds, NEW n \in Int, w.at = n,
           w.step \in {"open", "make", "reopen", "use"}, BecomesIn(w, v, kinds),
           w.step = "open" => n \in 1..Leaf,
           w.step \in {"make", "reopen"} => n \in 1..Depth
    PROVE  StepsLeft(v) < StepsLeft(w)
<1>1. Depth \in Nat /\ Leaf = Depth + 1
  BY NameFacts
<1>2. CASE w.step = "open"
  <2>1. StepsLeft(w) = 3 * (Leaf - n) + 2 /\ n \in 1..Leaf
    BY <1>2 DEF StepsLeft
  <2>2. \/ StepsLeft(v) = 0
        \/ StepsLeft(v) = 1
        \/ StepsLeft(v) = 3 * (Leaf - n) + 1
        \/ StepsLeft(v) = 3 * (Leaf - (n + 1)) + 2
    BY <1>2 DEF StepsLeft, BecomesIn
  <2> QED
    BY <1>1, <2>1, <2>2
<1>3. CASE w.step = "make"
  <2>1. StepsLeft(w) = 3 * (Leaf - n) + 1 /\ n \in 1..Depth
    BY <1>3 DEF StepsLeft
  <2>2. StepsLeft(v) = 0 \/ StepsLeft(v) = 3 * (Leaf - n)
    BY <1>3 DEF StepsLeft, BecomesIn
  <2> QED
    BY <1>1, <2>1, <2>2
<1>4. CASE w.step = "reopen"
  <2>1. StepsLeft(w) = 3 * (Leaf - n) /\ n \in 1..Depth
    BY <1>4 DEF StepsLeft
  <2>2. StepsLeft(v) = 0 \/ StepsLeft(v) = 3 * (Leaf - (n + 1)) + 2
    BY <1>4 DEF StepsLeft, BecomesIn
  <2> QED
    BY <1>1, <2>1, <2>2
<1>5. CASE w.step = "use"
  <2>1. StepsLeft(w) = 1
    BY <1>5 DEF StepsLeft
  <2>2. StepsLeft(v) = 0
    BY <1>5 DEF StepsLeft, BecomesIn
  <2> QED
    BY <2>1, <2>2
<1> QED
  BY <1>2, <1>3, <1>4, <1>5

LEMMA FewerLeft ==
    ASSUME ToolsInv, NEW s \in Servers, WalkStep(s)
    PROVE  StepsLeft(walk'[s]) < StepsLeft(walk[s])
<1>1. BecomesIn(walk[s], walk'[s], kind)
  BY StepOfWalk DEF Becomes
<1>2. walk[s].step \in {"open", "make", "reopen", "use"}
  BY DEF WalkStep, OpenDirectory, MakeDirectory, ReopenDirectory, OpenLeaf, UseLeaf
<1>3. /\ walk[s].step = "open" => walk[s].at \in 1..Leaf
      /\ walk[s].step \in {"make", "reopen"} => walk[s].at \in 1..Depth
  BY AtOpen
<1>4. walk[s].at \in Int
  BY WalkFacts, NameFacts
<1> QED
  BY <1>1, <1>2, <1>3, <1>4, FewerAfter
\* Nobody else moves a walk.
LEMMA OthersWalk ==
    ASSUME ToolsInv, [ToolsNext]_toolVars, NEW s \in Servers, ~WalkStep(s),
           walk[s].step # "idle"
    PROVE  walk'[s] = walk[s]
<1>1. walk \in [Servers -> Walks]
  BY WalkFacts
<1>2. ASSUME NEW t \in Servers, WalkStep(t)
      PROVE  walk'[s] = walk[s]
  BY <1>1, <1>2, StepOfWalk DEF Becomes
<1>3. ASSUME NEW t \in Servers, NEW op \in {"read", "write"}, Resolve(t, op)
      PROVE  walk'[s] = walk[s]
  <2>1. t # s /\ \E w : walk' = [walk EXCEPT ![t] = w]
    BY <1>3 DEF Resolve
  <2> QED
    BY <1>1, <2>1
<1>4. ASSUME walk' = walk
      PROVE  walk'[s] = walk[s]
  BY <1>4
<1>5. CASE UNCHANGED toolVars
  BY <1>4, <1>5 DEF toolVars
<1>6. ASSUME NEW dir, \/ MoveAway(dir) \/ RemoveDirectory(dir) \/ PutLink(dir)
                      \/ \E what \in {"dir", "file"} : PutNode(dir, what)
      PROVE  walk'[s] = walk[s]
  BY <1>4, <1>6 DEF MoveAway, RemoveDirectory, PutLink, PutNode, Meddles
<1> QED
  BY <1>2, <1>3, <1>5, <1>6 DEF ToolsNext, WalkStep

LEMMA ShortWalks == ToolsInv => WalksAreShort
<1> SUFFICES ASSUME ToolsInv, NEW s \in Servers
             PROVE  StepsLeft(walk[s]) \in 0..(3 * Depth + 2)
  BY DEF WalksAreShort
<1>1. Depth \in Nat /\ Leaf = Depth + 1
  BY NameFacts
<1>2. PICK n \in Int : walk[s].at = n
  BY WalkFacts, NameFacts
<1>3. /\ walk[s].step = "open" => n \in 1..Leaf
      /\ walk[s].step \in {"make", "reopen"} => n \in 1..Depth
  BY <1>2, AtOpen
<1>4. CASE walk[s].step = "open"
  <2>1. StepsLeft(walk[s]) = 3 * (Leaf - n) + 2 /\ n \in 1..Leaf
    BY <1>2, <1>3, <1>4 DEF StepsLeft
  <2> QED
    BY <1>1, <2>1
<1>5. CASE walk[s].step \in {"make", "reopen"}
  <2>1. /\ StepsLeft(walk[s]) \in {3 * (Leaf - n), 3 * (Leaf - n) + 1}
        /\ n \in 1..Depth
    BY <1>2, <1>3, <1>5 DEF StepsLeft
  <2> QED
    BY <1>1, <2>1
<1>6. CASE walk[s].step \notin {"open", "make", "reopen"}
  <2>1. StepsLeft(walk[s]) \in {0, 1}
    BY <1>6 DEF StepsLeft
  <2> QED
    BY <1>1, <2>1
<1> QED
  BY <1>4, <1>5, <1>6

\* A call makes at most three system calls for each directory of the path and two for its
\* leaf, whatever others do to the directories meanwhile, and whoever makes them with it:
\* each one leaves fewer to make, and nothing else moves the walk.
THEOREM WalksAreBounded == ToolsSpec => WalksComeNearer /\ []WalksAreShort
<1>1. ToolsInv /\ [ToolsNext]_toolVars => Nearer
  BY FewerLeft, OthersWalk DEF Nearer
<1>2. ToolsSpec => WalksComeNearer
  BY <1>1, ToolsInductive, PTL DEF ToolsSpec, WalksComeNearer
<1> QED
  BY <1>2, ShortWalks, ToolsInductive, PTL

-----------------------------------------------------------------------------
\* No call of the loop is stuck on what it finds.

\* A step of the workspace: nothing, an inode made, a name dropped or linked, a directory removed.
NodesStep(dir) ==
    \/ UNCHANGED <<kind, entry>>
    \/ /\ Unused # {}
       /\ \E what \in {"dir", "file"} : Makes(dir, what)
    \/ UNCHANGED kind /\ \E e \in {Nothing, Link} : entry' = [entry EXCEPT ![dir] = e]
    \/ RemoveDirectory(dir)

LEMMA NodesStepLive ==
    ASSUME ToolsInv, Tree, EntriesLive, NEW dir \in 0..MaxNode, NodesStep(dir)
    PROVE  /\ EntriesLive'
           /\ \A x \in 0..MaxNode : kind[x] \in {"dir", "removed"} => kind'[x] \in {"dir", "removed"}
<1>1. /\ entry \in [Nodes -> Nodes \union {Nothing, Link}]
      /\ kind \in [Nodes -> {"unused", "dir", "file", "removed"}]
      /\ 0..MaxNode \subseteq Nodes /\ dir \in Nodes /\ EntriesInside
      /\ Nothing \notin Nodes /\ Link \notin Nodes
  BY NodeFacts DEF ToolsInv, ToolsTypeOK
<1> DEFINE Live == \A x \in 0..MaxNode : entry'[x] \in Nodes => kind'[entry'[x]] \in {"dir", "file"}
           Stay == \A x \in 0..MaxNode :
                       kind[x] \in {"dir", "removed"} => kind'[x] \in {"dir", "removed"}
<1>2. Live => EntriesLive'
  BY DEF EntriesLive, Nodes
<1>3. ASSUME UNCHANGED kind, UNCHANGED entry
      PROVE  Live /\ Stay
  BY <1>3 DEF EntriesLive
<1>4. ASSUME Unused # {}, NEW what \in {"dir", "file"}, Makes(dir, what)
      PROVE  Live /\ Stay
  <2>1. /\ Fresh \in Nodes /\ kind[Fresh] = "unused"
        /\ kind'[Fresh] = what /\ \A x \in Nodes : x # Fresh => kind'[x] = kind[x]
        /\ entry'[dir] = Fresh /\ \A x \in Nodes : x # dir => entry'[x] = entry[x]
    BY <1>1, <1>4, FreshInside, NodeFacts DEF Makes
  <2>2. Stay
    BY <1>1, <2>1
  <2>3. ASSUME NEW x \in 0..MaxNode, entry'[x] \in Nodes
        PROVE  kind'[entry'[x]] \in {"dir", "file"}
    <3>1. CASE x = dir
      BY <1>4, <2>1, <3>1
    <3>2. CASE x # dir
      <4>1. entry'[x] = entry[x] /\ kind[entry[x]] \in {"dir", "file"}
        BY <1>1, <2>1, <2>3, <3>2 DEF EntriesLive
      <4> QED
        BY <2>1, <2>3, <4>1
    <3> QED
      BY <3>1, <3>2
  <2> QED
    BY <2>2, <2>3
<1>5. ASSUME UNCHANGED kind, NEW e \in {Nothing, Link}, entry' = [entry EXCEPT ![dir] = e]
      PROVE  Live /\ Stay
  <2>1. \A x \in 0..MaxNode : entry'[x] \in Nodes => entry'[x] = entry[x]
    BY <1>1, <1>5
  <2> QED
    BY <1>5, <2>1 DEF EntriesLive
<1>6. ASSUME RemoveDirectory(dir)
      PROVE  Live /\ Stay
  <2>1. /\ entry[dir] \in Nodes /\ kind[entry[dir]] = "dir"
        /\ entry' = [entry EXCEPT ![dir] = Nothing]
        /\ kind' = [kind EXCEPT ![entry[dir]] = "removed"]
    BY <1>6 DEF RemoveDirectory
  <2>2. /\ \A x \in Nodes : kind'[x] = IF x = entry[dir] THEN "removed" ELSE kind[x]
        /\ \A x \in Nodes : entry'[x] = IF x = dir THEN Nothing ELSE entry[x]
    BY <1>1, <2>1
  <2>3. Stay
    BY <1>1, <2>2
  <2>4. ASSUME NEW x \in 0..MaxNode, entry'[x] \in Nodes
        PROVE  kind'[entry'[x]] \in {"dir", "file"}
    <3>1. x # dir /\ entry'[x] = entry[x]
      BY <1>1, <2>2, <2>4
    <3>2. entry[x] # entry[dir] /\ kind[entry[x]] \in {"dir", "file"}
      BY <2>1, <2>4, <3>1 DEF Tree, EntriesLive
    <3> QED
      BY <2>2, <2>4, <3>1, <3>2
  <2> QED
    BY <2>3, <2>4
<1> HIDE DEF Live, Stay
<1>7. Live /\ Stay
  BY <1>3, <1>4, <1>5, <1>6 DEF NodesStep
<1> QED
  BY <1>2, <1>7 DEF Stay

\* Every step of the servers and of other programs is one.
LEMMA EveryNodesStep ==
    ASSUME ToolsInv, [ToolsNext]_toolVars
    PROVE  \E dir \in 0..MaxNode : NodesStep(dir)
<1>1. Root \in 0..MaxNode
  BY NodeFacts
<1>2. ASSUME UNCHANGED <<kind, entry>>
      PROVE  NodesStep(Root)
  BY <1>2 DEF NodesStep
<1>3. ASSUME NEW dir \in 0..MaxNode, NEW what \in {"dir", "file"}, Unused # {}, Makes(dir, what)
      PROVE  NodesStep(dir)
  BY <1>3 DEF NodesStep
<1>4. ASSUME NEW s \in Servers, MakeDirectory(s) \/ OpenLeaf(s)
      PROVE  \/ UNCHANGED <<kind, entry>>
             \/ \E what \in {"dir", "file"} : Unused # {} /\ Makes(walk[s].dir, what)
  BY <1>4 DEF MakeDirectory, OpenLeaf, Makes
<1>5. ASSUME NEW s \in Servers, \/ \E op \in {"read", "write"} : Resolve(s, op)
                               \/ OpenDirectory(s) \/ ReopenDirectory(s) \/ UseLeaf(s)
      PROVE  UNCHANGED <<kind, entry>>
  BY <1>5 DEF Resolve, OpenDirectory, ReopenDirectory, UseLeaf
<1>6. ASSUME NEW dir \in 0..MaxNode, MoveAway(dir) \/ RemoveDirectory(dir) \/ PutLink(dir)
      PROVE  NodesStep(dir)
  BY <1>6 DEF MoveAway, PutLink, NodesStep
<1>7. ASSUME NEW dir \in 0..MaxNode, NEW what \in {"dir", "file"}, PutNode(dir, what)
      PROVE  NodesStep(dir)
  BY <1>3, <1>7 DEF PutNode, Makes
<1>8. CASE UNCHANGED toolVars
  BY <1>1, <1>2, <1>8 DEF toolVars
<1>9. ASSUME NEW s \in Servers, MakeDirectory(s) \/ OpenLeaf(s)
      PROVE  \E dir \in 0..MaxNode : NodesStep(dir)
  BY <1>1, <1>2, <1>3, <1>4, <1>9, WalkFacts
<1>10. ASSUME NEW s \in Servers, \/ \E op \in {"read", "write"} : Resolve(s, op)
                                \/ OpenDirectory(s) \/ ReopenDirectory(s) \/ UseLeaf(s)
       PROVE  \E dir \in 0..MaxNode : NodesStep(dir)
  BY <1>1, <1>2, <1>5, <1>10
<1> QED
  BY <1>6, <1>7, <1>8, <1>9, <1>10 DEF ToolsNext

LEMMA LiveInitInv == ToolsInit => LiveInv
<1> SUFFICES ASSUME ToolsInit PROVE EntriesLive /\ \A s \in Servers : WalkLive(walk[s], kind)
  BY RaceInitInv DEF LiveInv
<1>1. PICK n \in 0..Depth, last \in {"nothing", "link", "file", "dir"} :
        /\ kind = [x \in Nodes |->
                      IF x <= n \/ x = Out THEN "dir"
                      ELSE IF x = OutFile THEN "file"
                      ELSE IF x = n + 1 /\ last \in {"file", "dir"} THEN last ELSE "unused"]
        /\ entry = [x \in Nodes |->
                      IF x < n THEN x + 1
                      ELSE IF x = n /\ last = "link" THEN Link
                      ELSE IF x = n /\ last \in {"file", "dir"} THEN n + 1
                      ELSE IF x = Out THEN OutFile
                      ELSE Nothing]
        /\ walk = [s \in Servers |-> Idle]
  BY DEF ToolsInit
<1>2. n \in Nat /\ n + 1 \in 0..MaxNode /\ 0..MaxNode \subseteq Nodes
      /\ \A x \in 0..MaxNode : x \in Nat /\ x # Out /\ x # OutFile
  BY NameFacts, NodeFacts, GovernedToolsAssumption DEF Nodes
<1>3. \A x \in 0..MaxNode :
          /\ entry[x] = IF x < n THEN x + 1
                        ELSE IF x = n /\ last = "link" THEN Link
                        ELSE IF x = n /\ last \in {"file", "dir"} THEN n + 1
                        ELSE Nothing
          /\ kind[x] = IF x <= n THEN "dir"
                       ELSE IF x = n + 1 /\ last \in {"file", "dir"} THEN last ELSE "unused"
  BY <1>1, <1>2
<1>4. ASSUME NEW x \in 0..MaxNode, entry[x] \in Nodes
      PROVE  kind[entry[x]] \in {"dir", "file"}
  <2>1. x < n \/ (x = n /\ last \in {"file", "dir"})
    BY <1>2, <1>3, <1>4, NodeFacts
  <2>2. CASE x < n
    <3>1. entry[x] = x + 1 /\ x + 1 \in 0..MaxNode /\ x + 1 <= n
      BY <1>2, <1>3, <2>2, GovernedToolsAssumption
    <3> QED
      BY <1>3, <3>1
  <2>3. CASE x = n /\ last \in {"file", "dir"}
    <3>1. entry[x] = n + 1 /\ ~(n < n) /\ ~(n + 1 <= n)
      BY <1>2, <1>3, <2>3
    <3> QED
      BY <1>2, <1>3, <2>3, <3>1
  <2> QED
    BY <2>1, <2>2, <2>3
<1>5. \A s \in Servers : walk[s].step = "idle"
  BY <1>1 DEF Idle, Over
<1> QED
  BY <1>4, <1>5 DEF EntriesLive, WalkLive

LEMMA LiveNext == LiveInv /\ [ToolsNext]_toolVars => LiveInv'
<1> SUFFICES ASSUME LiveInv, [ToolsNext]_toolVars PROVE LiveInv'
  OBVIOUS
<1>1. RaceInv' /\ ToolsInv /\ ToolsInv' /\ Tree /\ EntriesLive
  BY RaceNext DEF LiveInv, RaceInv
<1>2. EntriesLive'
      /\ \A x \in 0..MaxNode : kind[x] \in {"dir", "removed"} => kind'[x] \in {"dir", "removed"}
  BY <1>1, EveryNodesStep, NodesStepLive
<1>3. ASSUME NEW s \in Servers
      PROVE  WalkLive(walk'[s], kind')
  <2>1. /\ walk[s] \in Walks /\ walk \in [Servers -> Walks]
        /\ walk[s].dir \in 0..MaxNode /\ walk'[s].dir \in 0..MaxNode
    BY <1>1, WalkFacts DEF ToolsInv, WalksHold, WalkHolds
  <2>2. WalkLive(walk[s], kind)
    BY DEF LiveInv
  <2>3. CASE walk'[s] = walk[s]
    BY <1>2, <2>1, <2>2, <2>3 DEF WalkLive
  <2>4. CASE WalkStep(s)
    <3>1. BecomesIn(walk[s], walk'[s], kind)
      BY <1>1, <2>4, StepOfWalk DEF Becomes
    <3> QED
      BY <1>2, <2>1, <2>2, <3>1 DEF WalkLive, BecomesIn
  <2>5. ASSUME NEW op \in {"read", "write"}, Resolve(s, op)
        PROVE  WalkLive(walk'[s], kind')
    <3>1. walk'[s].step = "idle" \/ (walk'[s].op = op /\ walk'[s].dir = Root)
      BY <2>1, <2>5 DEF Resolve, Over
    <3>2. kind'[Root] = "dir"
      BY <1>1 DEF RaceInv, Tree
    <3> QED
      BY <3>1, <3>2 DEF WalkLive
  <2>6. ASSUME walk[s].step = "idle", ~(\E op \in {"read", "write"} : Resolve(s, op))
        PROVE  walk'[s] = walk[s]
    <3>1. ASSUME NEW t \in Servers, WalkStep(t)
          PROVE  walk'[s] = walk[s]
      <4>1. t # s
        BY <2>6, <3>1 DEF WalkStep, OpenDirectory, MakeDirectory, ReopenDirectory, OpenLeaf, UseLeaf
      <4> QED
        BY <1>1, <2>1, <3>1, <4>1, StepOfWalk DEF Becomes
    <3>2. ASSUME NEW t \in Servers, NEW op \in {"read", "write"}, Resolve(t, op)
          PROVE  walk'[s] = walk[s]
      <4>1. t # s /\ \E w : walk' = [walk EXCEPT ![t] = w]
        BY <2>6, <3>2 DEF Resolve
      <4> QED
        BY <2>1, <4>1
    <3>3. ASSUME NEW dir, \/ MoveAway(dir) \/ RemoveDirectory(dir) \/ PutLink(dir)
                          \/ \E what \in {"dir", "file"} : PutNode(dir, what)
          PROVE  walk' = walk
      BY <3>3 DEF MoveAway, RemoveDirectory, PutLink, PutNode, Meddles
    <3>4. UNCHANGED toolVars => walk' = walk
      BY DEF toolVars
    <3> QED
      BY <3>1, <3>2, <3>3, <3>4 DEF ToolsNext, WalkStep
  <2> QED
    BY <1>1, <2>3, <2>4, <2>5, <2>6, OthersWalk
<1>4. (\A s \in Servers : WalkLive(walk[s], kind))'
  BY <1>3 DEF WalkLive
<1> QED
  BY <1>1, <1>2, <1>4 DEF LiveInv

\* Whatever a walk finds at its next name, and even in a directory that was removed under it,
\* the call has an answer to it: only a disk without inodes could stop it.
THEOREM WalksAlwaysGoOn == ToolsSpec => []WalksGoOn
<1>1. LiveInv => WalksGoOn
  <2> SUFFICES ASSUME LiveInv, NEW s \in Servers, walk[s].step # "idle", Unused # {}
               PROVE  CanWalk(s)
    BY DEF WalksGoOn
  <2> DEFINE dir == walk[s].dir
             next == entry[dir]
  <2>1. /\ walk[s].step \in {"open", "make", "reopen", "use"} /\ dir \in 0..MaxNode
        /\ walk[s].at \in 0..Leaf /\ Depth \in Nat /\ Leaf = Depth + 1 /\ 0..Leaf \subseteq Nat
    BY WalkFacts, NameFacts DEF LiveInv, RaceInv, Walks
  <2>2. next \in Nodes \union {Nothing, Link}
    BY <2>1, NodeFacts DEF LiveInv, RaceInv, ToolsInv, ToolsTypeOK
  <2>3. next \in Nodes => kind[next] \in {"dir", "file"}
    BY <2>1 DEF LiveInv, EntriesLive
  <2>4. walk[s].step \in {"open", "make"} =>
            kind[dir] \in {"dir", "removed"} /\ walk[s].op \in {"read", "write"}
    BY DEF LiveInv, WalkLive
  <2>5. walk[s].at <= Depth \/ walk[s].at > Depth
    BY <2>1
  <2> QED
    BY <2>1, <2>2, <2>3, <2>4, <2>5 DEF CanWalk, OpenAt
<1> QED
  BY <1>1, LiveInitInv, LiveNext, PTL DEF ToolsSpec
=============================================================================
