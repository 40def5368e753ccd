------------------------- MODULE ConfigDiff_proofs -------------------------
(***************************************************************************)
(* Proofs about ConfigDiff: whatever the leaves, values and nodes are,     *)
(* executing a diff gives what the form asked for, in every order of its   *)
(* commands, every command has something to do, and nothing is left to     *)
(* stage afterwards.                                                       *)
(*                                                                         *)
(* The inductive invariant says what the configuration will be when the    *)
(* commands that are left have been executed (Outcome).  A request settles *)
(* it, no order of execution changes it, and at the end it is the session. *)
(***************************************************************************)
EXTENDS ConfigDiff, TLAPS

-----------------------------------------------------------------------------
(***************************************************************************)
(* The invariant                                                           *)
(***************************************************************************)

\* A leaf holds one value unless it is in Multi.
OneValue(content) == \A l \in Leaf \ Multi : \E v \in Value : content[l] \subseteq {v}

\* What every content on a device satisfies, whatever was asked for.
Sound(kind, content) ==
  /\ content["node"] \subseteq {Present}
  /\ kind \notin Nat44 => \A l \in Iface : content[l] = {}
  /\ OneValue(content)

\* Commands that remove, set or delete values of leaf l of node n.
DroppedBy(ds, n, l) ==
  {v \in Value : \E c \in ds : c.node = n /\ l \in c.leaves /\ v \in c.vals}
SetBy(es, n, l) ==
  {v \in Value : \E c \in es : c.op = "set" /\ c.node = n /\ l \in c.leaves /\ v \in c.vals}
CutBy(es, n, l) ==
  {v \in Value : \E c \in es : c.op = "delete" /\ c.node = n /\ l \in c.leaves /\ v \in c.vals}
Creates(es, n) == \E c \in es : c.op = "set" /\ c.node = n

\* The content of node n after the commands in ds and then those in es.
After(ds, es, content, n) ==
  [l \in Leaf |->
     IF l = "node" /\ Creates(es, n) THEN {Present}
     ELSE IF l \notin Multi /\ SetBy(es, n, l) # {} THEN SetBy(es, n, l)
     ELSE ((content[l] \ DroppedBy(ds, n, l)) \union SetBy(es, n, l)) \ CutBy(es, n, l)]
Outcome == [n \in Node |-> After(drops, edits, session[n], n)]

\* The commands of a batch do not undo each other.
EditsOK(es) ==
  /\ \A c \in es : \E l \in Leaf :
       /\ c.leaves = {l}
       /\ c.op = "set" => \E v \in Value : c.vals = {v}
       /\ c.op = "delete" => l # "node"
       /\ l = "node" => c.vals = {Present}
  /\ \A c, d \in es : c.node = d.node /\ c.leaves = d.leaves /\ c # d =>
       c.leaves \subseteq Multi /\ c.vals \intersect d.vals = {}
BatchOK == (\A c \in drops : c.op = "delete") /\ EditsOK(edits)

\* Every command has something to do, also after the others that come before it.
Matters ==
  /\ \A c, d \in drops : c.node = d.node => c = d
  /\ \A c \in drops : \E l \in c.leaves : session[c.node][l] \intersect c.vals # {}
  /\ \A c \in edits : c.op = "set" =>
       \A l \in c.leaves : 
         /\ session[c.node][l] \intersect c.vals = {}
         /\ l = "node" => \A d \in edits : d.op = "set" /\ d.node = c.node => d = c
  /\ \A c \in edits : c.op = "delete" =>
       \A l \in c.leaves : 
         /\ session[c.node][l] \intersect c.vals # {}
         /\ \A d \in drops : d.node = c.node => l \notin d.leaves

\* The parts of the invariant: every content is possible,
ContentInv ==
  \A n \in Node : /\ Valid(n[1], live[n]) /\ Sound(n[1], live[n])
                 /\ Sound(n[1], Outcome[n])
                 /\ OneValue(session[n])
\* the outcome is what the forms ask for and is not refused,
FormInv ==
  plain => \A n \in Node : /\ Valid(n[1], Outcome[n])
                           /\ Shown(n, Outcome[n]) = Shown(n, goal[n])
\* the same forms find nothing to do then,
AgainInv ==
  plain => \A f \in asked : ~Moved(f) => NodeDiff(f, Outcome) = [drops |-> {}, edits |-> {}]
\* no command is without effect,
MatterInv == plain /\ asked # {} => Matters
\* and the rules of a pair are a mapping.
PairInv ==
  \A f, g \in asked : f.node[1] = "source" /\ g.node[1] = "destination" =>
    /\ IsStatic(Outcome, f.node, g.node)
    /\ Outcome[f.node]["source-address"] = f.want["source-address"]
    /\ Outcome[f.node]["translation-address"] = f.want["translation-address"]
    /\ plain => (IsEnabled(Outcome[f.node]) /\ IsEnabled(Outcome[g.node])) = IsEnabled(f.want)

\* A set that comes again is of a value that is there by then and that no deletion
\* of the batch takes away.
RepeatInv ==
  \A c \in repeats : \E l \in Multi, v \in Value :
    /\ c.op = "set" /\ c.leaves = {l} /\ c.vals = {v}
    /\ \A d \in edits : d.op = "delete" /\ d.node = c.node /\ d.leaves = {l} => v \notin d.vals
    /\ c \notin edits => /\ drops = {}
                       /\ session[c.node]["node"] = {Present}
                       /\ v \in session[c.node][l]

TypeInv ==
  /\ page \in Pages
  /\ live \in Config
  /\ session \in Config
  /\ drops \subseteq Command
  /\ edits \subseteq Command
  /\ repeats \subseteq Command
  /\ asked \subseteq Form
  /\ plain \in BOOLEAN

DiffInv ==
  BatchOK /\ ContentInv /\ FormInv /\ AgainInv /\ MatterInv /\ PairInv /\ RepeatInv

-----------------------------------------------------------------------------
(***************************************************************************)
(* The execution of a batch                                                *)
(***************************************************************************)

\* Without commands nothing changes.
LEMMA AfterNothing ==
  ASSUME NEW content \in Content, NEW n
  PROVE  After({}, {}, content, n) = content
<1>1. \A l \in Leaf : content[l] \subseteq Value
  BY DEF Content
<1>2. \A l \in Leaf : DroppedBy({}, n, l) = {} /\ SetBy({}, n, l) = {} /\ CutBy({}, n, l) = {}
  BY DEF DroppedBy, SetBy, CutBy
<1>3. ~Creates({}, n)
  BY DEF Creates
<1>4. After({}, {}, content, n) = [l \in Leaf |-> content[l]]
  BY <1>2, <1>3 DEF After
<1> QED
  BY <1>4 DEF Content

\* What one command does to the leaves.
LEMMA ExecLeaf ==
  ASSUME NEW config \in Config, NEW c \in Command
  PROVE  /\ \A n \in Node : n # c.node => Exec(c, config)[n] = config[n]
         /\ \A l \in Leaf : Exec(c, config)[c.node][l] =
              IF c.op = "set"
              THEN IF l = "node" THEN {Present}
                   ELSE IF l \notin c.leaves THEN config[c.node][l]
                   ELSE IF l \in Multi THEN config[c.node][l] \union c.vals ELSE c.vals
              ELSE IF l \in c.leaves THEN config[c.node][l] \ c.vals ELSE config[c.node][l]
<1>1. c.node \in Node
  BY DEF Command
<1>2. Exec(c, config)[c.node] =
        IF c.op = "set" THEN SetIn(c, config[c.node]) ELSE DeleteIn(c, config[c.node])
  BY <1>1 DEF Exec, Config
<1>3. \A n \in Node : n # c.node => Exec(c, config)[n] = config[n]
  BY DEF Exec, Config
<1> QED
  BY <1>2, <1>3 DEF SetIn, DeleteIn

\* A command leaves a configuration.
LEMMA ExecType ==
  ASSUME NEW config \in Config, NEW c \in Command
  PROVE  Exec(c, config) \in Config
<1>1. c.node \in Node /\ c.vals \subseteq Value
  BY DEF Command
<1>2. config[c.node] \in Content
  BY <1>1 DEF Config
<1>3. SetIn(c, config[c.node]) \in Content
  BY <1>1, <1>2, LeafAssumption DEF SetIn, Content
<1>4. DeleteIn(c, config[c.node]) \in Content
  BY <1>2 DEF DeleteIn, Content
<1> QED
  BY <1>1, <1>3, <1>4 DEF Exec, Config

\* What the next command does to the session.
LEMMA SessionLeaf ==
  ASSUME TypeInv, NEW c \in Command, session' = Exec(c, session)
  PROVE  /\ \A n \in Node : n # c.node => session'[n] = session[n]
         /\ \A l \in Leaf : l \notin c.leaves /\ (l # "node" \/ c.op # "set") =>
              session'[c.node][l] = session[c.node][l]
         /\ c.op = "set" => session'[c.node]["node"] = {Present}
         /\ c.op = "set" => \A l \in Leaf : l \in c.leaves /\ l # "node" =>
              session'[c.node][l] = IF l \in Multi THEN session[c.node][l] \union c.vals
                                    ELSE c.vals
         /\ c.op = "delete" => \A l \in Leaf : l \in c.leaves =>
              session'[c.node][l] = session[c.node][l] \ c.vals
<1>1. session \in Config /\ "node" \in Leaf
  BY LeafAssumption DEF TypeInv
<1>2. /\ \A n \in Node : n # c.node => Exec(c, session)[n] = session[n]
      /\ \A l \in Leaf : Exec(c, session)[c.node][l] =
           IF c.op = "set"
           THEN IF l = "node" THEN {Present}
                ELSE IF l \notin c.leaves THEN session[c.node][l]
                ELSE IF l \in Multi THEN session[c.node][l] \union c.vals ELSE c.vals
           ELSE IF l \in c.leaves THEN session[c.node][l] \ c.vals ELSE session[c.node][l]
  BY <1>1, ExecLeaf
<1> QED
  BY <1>1, <1>2

\* A deletion that comes first takes away what it is said to take away.
LEMMA DropOutcome ==
  ASSUME TypeInv, BatchOK, NEW c \in drops, page' = page, session' = Exec(c, session),
         drops' = drops \ {c}, edits' = edits
  PROVE  Outcome' = Outcome
<1>1. c \in Command /\ c.op = "delete" /\ c.vals \subseteq Value
  BY DEF TypeInv, BatchOK, EditsOK, Command
<1>2. ASSUME NEW n \in Node, NEW l \in Leaf
      PROVE  session'[n][l] \ DroppedBy(drops', n, l) = session[n][l] \ DroppedBy(drops, n, l)
  <2>1. CASE n = c.node /\ l \in c.leaves
    <3>1. session'[n][l] = session[n][l] \ c.vals
      BY <1>1, <2>1, SessionLeaf
    <3>2. DroppedBy(drops, n, l) = DroppedBy(drops', n, l) \union c.vals
      BY <1>1, <2>1 DEF DroppedBy
    <3> QED
      BY <3>1, <3>2
  <2>2. CASE ~(n = c.node /\ l \in c.leaves)
    <3>1. session'[n][l] = session[n][l]
      BY <1>1, <2>2, SessionLeaf
    <3>2. DroppedBy(drops, n, l) = DroppedBy(drops', n, l)
      BY <2>2 DEF DroppedBy
    <3> QED
      BY <3>1, <3>2
  <2> QED
    BY <2>1, <2>2
<1>3. ASSUME NEW n \in Node
      PROVE  After(drops', edits', session'[n], n) = After(drops, edits, session[n], n)
  BY <1>2 DEF After
<1>4. Node' = Node
  BY DEF Node
<1> QED
  BY <1>3, <1>4 DEF Outcome

\* A command of the second set writes the leaf it is said to write, and leaves the
\* others to the commands that write those.
LEMMA EditLeaf ==
  ASSUME TypeInv, BatchOK, NEW c \in edits, drops = {}, page' = page,
         session' = Exec(c, session), edits' = edits \ {c}, NEW l \in c.leaves
  PROVE  After({}, edits', session'[c.node], c.node)[l]
           = After({}, edits, session[c.node], c.node)[l]
<1> DEFINE n == c.node
           S == session[n][l]
<1>1. /\ c \in Command /\ c.op \in {"set", "delete"} /\ c.vals \subseteq Value /\ n \in Node
      /\ l \in Leaf /\ c.leaves = {l}
  BY DEF TypeInv, BatchOK, EditsOK, Command
<1>2. /\ c.op = "set" => \E v \in Value : c.vals = {v}
      /\ c.op = "delete" => l # "node"
      /\ l = "node" => c.vals = {Present}
  BY <1>1 DEF BatchOK, EditsOK
<1>3. \A d \in edits' : d.node = n /\ l \in d.leaves =>
        l \in Multi /\ c.vals \intersect d.vals = {}
  <2> SUFFICES ASSUME NEW d \in edits', d.node = n, l \in d.leaves
               PROVE  l \in Multi /\ c.vals \intersect d.vals = {}
    OBVIOUS
  <2>1. d \in edits /\ d # c /\ d.leaves = {l}
    BY <1>1 DEF BatchOK, EditsOK
  <2> QED
    BY <1>1, <2>1 DEF BatchOK, EditsOK
<1>4. DroppedBy({}, n, l) = {}
  BY DEF DroppedBy
<1>5. CASE c.op = "set"
  <2>1. PICK v \in Value : c.vals = {v}
    BY <1>2, <1>5
  <2>2. SetBy(edits, n, l) = SetBy(edits', n, l) \union {v}
    BY <1>1, <1>5, <2>1 DEF SetBy
  <2>3. CutBy(edits, n, l) = CutBy(edits', n, l) /\ v \notin CutBy(edits, n, l)
    BY <1>1, <1>3, <1>5, <2>1 DEF CutBy
  <2>4. CASE l = "node"
    <3>1. session'[n][l] = {Present} /\ Creates(edits, n) /\ l \notin Multi
      BY <1>1, <1>5, <2>4, SessionLeaf, SingleAssumption DEF TypeInv, Creates
    <3>2. SetBy(edits', n, l) = {} /\ CutBy(edits', n, l) = {}
      BY <1>3, <3>1 DEF SetBy, CutBy
    <3> QED
      BY <1>1, <1>4, <2>4, <3>1, <3>2 DEF After
  <2>5. CASE l # "node" /\ l \in Multi
    <3>1. session'[n][l] = S \union {v}
      BY <1>1, <1>5, <2>1, <2>5, SessionLeaf
    <3> HIDE DEF n
    <3>2. After({}, edits', session'[n], n)[l]
            = (session'[n][l] \union SetBy(edits', n, l)) \ CutBy(edits', n, l)
      BY <1>1, <1>4, <2>5 DEF After
    <3>3. After({}, edits, session[n], n)[l]
            = (S \union SetBy(edits, n, l)) \ CutBy(edits, n, l)
      BY <1>1, <1>4, <2>5 DEF After
    <3>4. After({}, edits', session'[n], n)[l] = After({}, edits, session[n], n)[l]
      BY <2>2, <2>3, <3>1, <3>2, <3>3
    <3> QED
      BY <3>4 DEF n
  <2>6. CASE l # "node" /\ l \notin Multi
    <3>1. session'[n][l] = {v}
      BY <1>1, <1>5, <2>1, <2>6, SessionLeaf
    <3>2. SetBy(edits', n, l) = {} /\ CutBy(edits', n, l) = {}
      BY <1>3, <2>6 DEF SetBy, CutBy
    <3>3. SetBy(edits, n, l) = {v}
      BY <2>2, <3>2
    <3> QED
      BY <1>1, <1>4, <2>6, <3>1, <3>2, <3>3 DEF After
  <2> QED
    BY <2>4, <2>5, <2>6
<1>6. CASE c.op = "delete"
  <2>1. session'[n][l] = S \ c.vals /\ l # "node"
    BY <1>1, <1>2, <1>6, SessionLeaf
  <2>2. SetBy(edits, n, l) = SetBy(edits', n, l) /\ SetBy(edits, n, l) \intersect c.vals = {}
    BY <1>1, <1>3, <1>6 DEF SetBy
  <2>3. CutBy(edits, n, l) = CutBy(edits', n, l) \union c.vals
    BY <1>1, <1>6 DEF CutBy
  <2>4. l \notin Multi => SetBy(edits, n, l) = {}
    BY <1>3, <2>2 DEF SetBy
  <2> HIDE DEF n
  <2>5. After({}, edits', session'[n], n)[l]
          = (session'[n][l] \union SetBy(edits', n, l)) \ CutBy(edits', n, l)
    BY <1>1, <1>4, <2>1, <2>2, <2>4 DEF After
  <2>6. After({}, edits, session[n], n)[l]
          = (S \union SetBy(edits, n, l)) \ CutBy(edits, n, l)
    BY <1>1, <1>4, <2>1, <2>4 DEF After
  <2>7. After({}, edits', session'[n], n)[l] = After({}, edits, session[n], n)[l]
    BY <2>1, <2>2, <2>3, <2>5, <2>6
  <2> QED
    BY <2>7 DEF n
<1> QED
  BY <1>1, <1>5, <1>6

\* The other commands come when no deletion is left, in any order.
LEMMA EditOutcome ==
  ASSUME TypeInv, BatchOK, NEW c \in edits, drops = {}, page' = page, drops' = {},
         session' = Exec(c, session), edits' = edits \ {c}
  PROVE  Outcome' = Outcome
<1>1. /\ c \in Command /\ c.op \in {"set", "delete"}
      /\ \A d \in edits : d.op \in {"set", "delete"} /\ \E l \in Leaf : d.leaves = {l}
  BY DEF TypeInv, BatchOK, EditsOK, Command
<1>2. ASSUME NEW n \in Node, NEW l \in Leaf, n # c.node
      PROVE  After({}, edits', session'[n], n)[l] = After({}, edits, session[n], n)[l]
  <2>1. session'[n] = session[n]
    BY <1>1, <1>2, SessionLeaf
  <2>2. /\ SetBy(edits', n, l) = SetBy(edits, n, l)
        /\ CutBy(edits', n, l) = CutBy(edits, n, l)
        /\ Creates(edits', n) = Creates(edits, n)
    BY <1>2 DEF SetBy, CutBy, Creates
  <2> QED
    BY <2>1, <2>2 DEF After
<1>3. ASSUME NEW l \in Leaf, l \notin c.leaves, l # "node"
      PROVE  After({}, edits', session'[c.node], c.node)[l]
               = After({}, edits, session[c.node], c.node)[l]
  <2>1. session'[c.node][l] = session[c.node][l]
    BY <1>1, <1>3, SessionLeaf
  <2>2. /\ SetBy(edits', c.node, l) = SetBy(edits, c.node, l)
        /\ CutBy(edits', c.node, l) = CutBy(edits, c.node, l)
    BY <1>3 DEF SetBy, CutBy
  <2> QED
    BY <1>3, <2>1, <2>2 DEF After
<1>4. ASSUME "node" \notin c.leaves
      PROVE  After({}, edits', session'[c.node], c.node)["node"]
               = After({}, edits, session[c.node], c.node)["node"]
  <2>1. "node" \in Leaf /\ "node" \notin Multi
    BY LeafAssumption, SingleAssumption
  <2>2. CutBy(edits, c.node, "node") = {} /\ CutBy(edits', c.node, "node") = {}
    <3>1. \A d \in edits : d.op = "delete" => "node" \notin d.leaves
      BY DEF BatchOK, EditsOK
    <3> QED
      BY <3>1 DEF CutBy
  <2>3. DroppedBy({}, c.node, "node") = {}
    BY DEF DroppedBy
  <2>4. CASE c.op = "set"
    <3>1. Creates(edits, c.node) /\ session'[c.node]["node"] = {Present}
      BY <1>1, <2>4, SessionLeaf DEF Creates
    <3>2. SetBy(edits', c.node, "node") \subseteq {Present}
      <4>1. \A d \in edits : "node" \in d.leaves => d.vals = {Present}
        BY DEF BatchOK, EditsOK
      <4> QED
        BY <4>1 DEF SetBy
    <3> QED
      BY <2>1, <2>2, <2>3, <3>1, <3>2 DEF After
  <2>5. CASE c.op = "delete"
    <3>1. session'[c.node]["node"] = session[c.node]["node"]
      BY <1>1, <1>4, <2>1, <2>5, SessionLeaf
    <3>2. /\ Creates(edits', c.node) = Creates(edits, c.node)
          /\ SetBy(edits', c.node, "node") = SetBy(edits, c.node, "node")
      BY <2>5 DEF Creates, SetBy
    <3> QED
      BY <2>1, <2>2, <3>1, <3>2 DEF After
  <2> QED
    BY <1>1, <2>4, <2>5
<1>5. ASSUME NEW n \in Node
      PROVE  After({}, edits', session'[n], n) = After({}, edits, session[n], n)
  <2>1. ASSUME NEW l \in Leaf
        PROVE  After({}, edits', session'[n], n)[l] = After({}, edits, session[n], n)[l]
    BY <1>2, <1>3, <1>4, EditLeaf
  <2> HIDE DEF After
  <2>2. /\ After({}, edits', session'[n], n) = [l \in Leaf |-> After({}, edits', session'[n], n)[l]]
        /\ After({}, edits, session[n], n) = [l \in Leaf |-> After({}, edits, session[n], n)[l]]
    BY DEF After
  <2> QED
    BY <2>1, <2>2
<1>6. Node' = Node
  BY DEF Node
<1> QED
  BY <1>5, <1>6 DEF Outcome

\* The commands that are left do not undo each other either.
LEMMA BatchStaysOK ==
  ASSUME BatchOK, drops' \subseteq drops, edits' \subseteq edits
  PROVE  BatchOK'
<1>1. \A c \in drops' : c.op = "delete"
  BY DEF BatchOK, EditsOK
<1>2. \A c \in edits' : \E l \in Leaf :
        /\ c.leaves = {l}
        /\ c.op = "set" => \E v \in Value : c.vals = {v}
        /\ c.op = "delete" => l # "node"
        /\ l = "node" => c.vals = {Present}
  BY DEF BatchOK, EditsOK
<1>3. \A c, d \in edits' : c.node = d.node /\ c.leaves = d.leaves /\ c # d =>
        c.leaves \subseteq Multi /\ c.vals \intersect d.vals = {}
  BY DEF BatchOK, EditsOK
<1> QED
  BY <1>1, <1>2, <1>3 DEF BatchOK, EditsOK

\* A deletion that comes first does not do the work of another command.
LEMMA DropMatters ==
  ASSUME TypeInv, BatchOK, Matters, NEW c \in drops, session' = Exec(c, session),
         page' = page, drops' = drops \ {c}, edits' = edits
  PROVE  Matters'
<1>1. c \in Command /\ c.op = "delete"
  BY DEF TypeInv, BatchOK, EditsOK
<1>2. ASSUME NEW n \in Node, NEW l \in Leaf, c.node # n \/ l \notin c.leaves
      PROVE  session'[n][l] = session[n][l]
  BY <1>1, <1>2, SessionLeaf
<1>3. ASSUME NEW n \in Node, NEW l \in Leaf PROVE session'[n][l] \subseteq session[n][l]
  <2>1. CASE n = c.node /\ l \in c.leaves
    BY <1>1, <2>1, SessionLeaf
  <2> QED
    BY <1>2, <2>1
<1>4. \A d \in drops \union edits : d.node \in Node /\ d.leaves \subseteq Leaf
  BY DEF TypeInv, Command
<1>5. ASSUME NEW d \in drops' PROVE \E l \in d.leaves : session'[d.node][l] \intersect d.vals # {}
  <2>1. d \in drops /\ d.node # c.node
    BY DEF Matters
  <2>2. PICK l \in d.leaves : session[d.node][l] \intersect d.vals # {}
    BY <2>1 DEF Matters
  <2>3. session'[d.node][l] = session[d.node][l]
    BY <1>2, <1>4, <2>1
  <2> QED
    BY <2>2, <2>3
<1>6. ASSUME NEW d \in edits', d.op = "set", NEW l \in d.leaves
      PROVE  /\ session'[d.node][l] \intersect d.vals = {}
             /\ l = "node" => \A e \in edits' : e.op = "set" /\ e.node = d.node => e = d
  <2>1. session[d.node][l] \intersect d.vals = {}
    BY <1>6 DEF Matters
  <2>2. l = "node" => \A e \in edits' : e.op = "set" /\ e.node = d.node => e = d
    BY <1>6 DEF Matters
  <2>3. session'[d.node][l] \subseteq session[d.node][l]
    BY <1>3, <1>4
  <2> QED
    BY <2>1, <2>2, <2>3
<1>7. ASSUME NEW d \in edits', d.op = "delete", NEW l \in d.leaves
      PROVE  /\ session'[d.node][l] \intersect d.vals # {}
             /\ \A e \in drops' : e.node = d.node => l \notin e.leaves
  <2>1. session[d.node][l] \intersect d.vals # {}
    BY <1>7 DEF Matters
  <2>2. \A e \in drops : e.node = d.node => l \notin e.leaves
    BY <1>7 DEF Matters
  <2>3. session'[d.node][l] = session[d.node][l]
    BY <1>2, <1>4, <2>2
  <2> QED
    BY <2>1, <2>2, <2>3
<1>8. \A d, e \in drops' : d.node = e.node => d = e
  BY DEF Matters
<1> QED
  BY <1>5, <1>6, <1>7, <1>8 DEF Matters

\* Nor does one of the others.
LEMMA EditMatters ==
  ASSUME TypeInv, BatchOK, Matters, NEW c \in edits, session' = Exec(c, session),
         page' = page, drops = {}, drops' = {}, edits' = edits \ {c}
  PROVE  Matters'
<1>1. c \in Command /\ c.op \in {"set", "delete"}
  BY DEF TypeInv, Command
<1>2. \A d \in edits : d.node \in Node /\ d.leaves \subseteq Leaf
  BY DEF TypeInv, Command
<1>3. ASSUME NEW d \in edits', NEW l \in d.leaves, d.node = c.node, l \in c.leaves
      PROVE  l \in Multi /\ d.vals \intersect c.vals = {} /\ l # "node"
  <2>1. d \in edits /\ c # d
    OBVIOUS
  <2>2. (\E k \in Leaf : c.leaves = {k}) /\ (\E k \in Leaf : d.leaves = {k})
    BY <2>1 DEF BatchOK, EditsOK
  <2>3. c.leaves = d.leaves
    BY <1>3, <2>2
  <2> QED
    BY <1>3, <2>1, <2>3, SingleAssumption DEF BatchOK, EditsOK
<1>4. ASSUME NEW d \in edits', d.op = "set", NEW l \in d.leaves
      PROVE  /\ session'[d.node][l] \intersect d.vals = {}
             /\ l = "node" => \A e \in edits' : e.op = "set" /\ e.node = d.node => e = d
  <2>1. session[d.node][l] \intersect d.vals = {}
    BY <1>4 DEF Matters
  <2>2. l = "node" => \A e \in edits : e.op = "set" /\ e.node = d.node => e = d
    BY <1>4 DEF Matters
  <2>3. CASE d.node # c.node
    <3>1. session'[d.node] = session[d.node]
      BY <1>1, <1>2, <2>3, SessionLeaf
    <3> QED
      BY <2>1, <2>2, <3>1
  <2>4. CASE d.node = c.node /\ l \in c.leaves
    <3>1. l \in Multi /\ d.vals \intersect c.vals = {} /\ l # "node" /\ l \in Leaf
      BY <1>2, <1>3, <2>4
    <3>2. \/ session'[c.node][l] = session[c.node][l] \union c.vals
          \/ session'[c.node][l] = session[c.node][l] \ c.vals
      BY <1>1, <2>4, <3>1, SessionLeaf
    <3> QED
      BY <2>1, <2>2, <2>4, <3>1, <3>2
  <2>5. CASE d.node = c.node /\ l \notin c.leaves
    <3>1. l # "node" \/ c.op # "set"
      BY <2>2, <2>5
    <3>2. session'[c.node][l] = session[c.node][l]
      BY <1>1, <1>2, <2>5, <3>1, SessionLeaf
    <3> QED
      BY <2>1, <2>2, <2>5, <3>2
  <2> QED
    BY <2>2, <2>3, <2>4, <2>5
<1>5. ASSUME NEW d \in edits', d.op = "delete", NEW l \in d.leaves
      PROVE  session'[d.node][l] \intersect d.vals # {}
  <2>1. session[d.node][l] \intersect d.vals # {}
    BY <1>5 DEF Matters
  <2>2. CASE d.node # c.node
    BY <1>1, <1>2, <2>1, <2>2, SessionLeaf
  <2>3. CASE d.node = c.node /\ l \in c.leaves
    <3>1. l \in Multi /\ d.vals \intersect c.vals = {} /\ l # "node" /\ l \in Leaf
      BY <1>2, <1>3, <2>3
    <3>2. \/ session'[c.node][l] = session[c.node][l] \union c.vals
          \/ session'[c.node][l] = session[c.node][l] \ c.vals
      BY <1>1, <2>3, <3>1, SessionLeaf
    <3> QED
      BY <2>1, <2>3, <3>1, <3>2
  <2>4. CASE d.node = c.node /\ l \notin c.leaves
    <3>1. l # "node" /\ l \in Leaf
      BY <1>2, <1>5 DEF BatchOK, EditsOK
    <3> QED
      BY <1>1, <2>1, <2>4, <3>1, SessionLeaf
  <2> QED
    BY <2>2, <2>3, <2>4
<1> QED
  BY <1>4, <1>5 DEF Matters

\* Executing a command leaves leaves with one value with one.
LEMMA OneValueStays ==
  ASSUME TypeInv, BatchOK, NEW c \in drops \union edits, session' = Exec(c, session),
         NEW n \in Node, OneValue(session[n])
  PROVE  OneValue(session'[n])
<1>1. /\ c \in Command /\ c.op \in {"set", "delete"} /\ Present \in Value
      /\ c.op = "set" => \E l \in Leaf, v \in Value : c.leaves = {l} /\ c.vals = {v}
  BY LeafAssumption DEF TypeInv, Command, BatchOK, EditsOK
<1> SUFFICES ASSUME NEW l \in Leaf \ Multi PROVE \E v \in Value : session'[n][l] \subseteq {v}
  BY DEF OneValue
<1>2. PICK v \in Value : session[n][l] \subseteq {v}
  BY DEF OneValue
<1>3. CASE n # c.node
  BY <1>1, <1>2, <1>3, SessionLeaf
<1>4. CASE n = c.node /\ l \notin c.leaves
  <2>1. CASE l = "node" /\ c.op = "set"
    BY <1>1, <1>4, <2>1, SessionLeaf
  <2>2. CASE l # "node" \/ c.op # "set"
    BY <1>1, <1>2, <1>4, <2>2, SessionLeaf
  <2> QED
    BY <2>1, <2>2
<1>5. CASE n = c.node /\ l \in c.leaves /\ c.op = "set"
  <2>1. PICK w \in Value : c.vals = {w}
    BY <1>1, <1>5
  <2>2. session'[c.node][l] = IF l = "node" THEN {Present} ELSE {w}
    BY <1>1, <1>5, <2>1, SessionLeaf
  <2> QED
    BY <1>1, <1>5, <2>2
<1>6. CASE n = c.node /\ l \in c.leaves /\ c.op = "delete"
  <2>1. session'[c.node][l] = session[c.node][l] \ c.vals
    BY <1>1, <1>6, SessionLeaf
  <2> QED
    BY <1>2, <1>6, <2>1
<1> QED
  BY <1>1, <1>3, <1>4, <1>5, <1>6

\* A command that comes again does nothing.
LEMMA RepeatIsIdle ==
  ASSUME TypeInv, RepeatInv, NEW c \in repeats \ edits
  PROVE  Exec(c, session) = session
<1>1. c \in Command /\ session \in Config /\ c.node \in Node
  BY DEF TypeInv, Command
<1>2. PICK l \in Multi, v \in Value :
        /\ c.op = "set" /\ c.leaves = {l} /\ c.vals = {v}
        /\ session[c.node]["node"] = {Present} /\ v \in session[c.node][l]
  BY DEF RepeatInv
<1>3. session[c.node] \in Content /\ session[c.node] = [k \in Leaf |-> session[c.node][k]]
  BY <1>1 DEF Config, Content
<1>4. \A k \in Leaf : session[c.node][k] =
        IF k = "node" THEN {Present}
        ELSE IF k \notin c.leaves THEN session[c.node][k]
        ELSE IF k \in Multi THEN session[c.node][k] \union c.vals ELSE c.vals
  BY <1>2
<1>5. SetIn(c, session[c.node]) = session[c.node]
  BY <1>3, <1>4 DEF SetIn
<1>6. Exec(c, session) = [session EXCEPT ![c.node] = session[c.node]]
  BY <1>2, <1>5 DEF Exec
<1> QED
  BY <1>1, <1>6 DEF Config

\* What comes again stays there while the other commands are executed.
LEMMA RepeatStays ==
  ASSUME TypeInv, BatchOK, RepeatInv, NEW c \in drops \union edits, page' = page,
         session' = Exec(c, session), repeats' = repeats,
         \/ c \in drops /\ drops' = drops \ {c} /\ edits' = edits
         \/ drops = {} /\ drops' = {} /\ c \in edits /\ edits' = edits \ {c}
  PROVE  RepeatInv'
<1>1. c \in Command /\ c.op \in {"set", "delete"} /\ "node" \in Leaf /\ "node" \notin Multi
  BY LeafAssumption, SingleAssumption DEF TypeInv, Command
<1> SUFFICES ASSUME NEW r \in repeats
             PROVE  \E l \in Multi, v \in Value :
                      /\ r.op = "set" /\ r.leaves = {l} /\ r.vals = {v}
                      /\ \A d \in edits' : d.op = "delete" /\ d.node = r.node /\ d.leaves = {l}
                                           => v \notin d.vals
                      /\ r \notin edits' => /\ drops' = {}
                                          /\ session'[r.node]["node"] = {Present}
                                          /\ v \in session'[r.node][l]
  BY DEF RepeatInv
<1>2. PICK l \in Multi, v \in Value :
        /\ r.op = "set" /\ r.leaves = {l} /\ r.vals = {v}
        /\ \A d \in edits : d.op = "delete" /\ d.node = r.node /\ d.leaves = {l} => v \notin d.vals
        /\ r \notin edits => /\ drops = {}
                           /\ session[r.node]["node"] = {Present}
                           /\ v \in session[r.node][l]
  BY DEF RepeatInv
<1>3. r.node \in Node /\ l \in Leaf /\ l # "node"
  <2>1. r \in Command
    BY DEF TypeInv
  <2> QED
    BY <1>1, <1>2, <2>1 DEF Command
<1>4. ASSUME r \notin edits'
      PROVE  /\ drops' = {} /\ session'[r.node]["node"] = {Present}
             /\ v \in session'[r.node][l]
  <2>1. c \in edits /\ drops' = {}
    BY <1>2, <1>4
  <2>2. c.op = "delete" => "node" \notin c.leaves /\ \E k \in Leaf : c.leaves = {k}
    BY <2>1 DEF BatchOK, EditsOK
  <2>3. CASE r = c
    BY <1>1, <1>2, <1>3, <2>1, <2>3, SessionLeaf
  <2>4. CASE r # c /\ c.node # r.node
    BY <1>1, <1>2, <1>3, <1>4, <2>1, <2>4, SessionLeaf
  <2>5. CASE r # c /\ c.node = r.node
    <3>1. session[c.node]["node"] = {Present} /\ v \in session[c.node][l]
      BY <1>2, <1>4, <2>1, <2>5
    <3>2. session'[c.node]["node"] = {Present}
      BY <1>1, <2>2, <3>1, SessionLeaf
    <3>3. CASE l \notin c.leaves
      BY <1>1, <1>3, <2>1, <2>5, <3>1, <3>2, <3>3, SessionLeaf
    <3>4. CASE l \in c.leaves /\ c.op = "set"
      BY <1>1, <1>3, <2>1, <2>5, <3>1, <3>2, <3>4, SessionLeaf
    <3>5. CASE l \in c.leaves /\ c.op = "delete"
      <4>1. v \notin c.vals
        BY <1>2, <2>1, <2>2, <2>5, <3>5
      <4> QED
        BY <1>1, <1>3, <2>1, <2>5, <3>1, <3>2, <3>5, <4>1, SessionLeaf
    <3> QED
      BY <1>1, <3>3, <3>4, <3>5
  <2> QED
    BY <2>3, <2>4, <2>5
<1>5. \A d \in edits' : d.op = "delete" /\ d.node = r.node /\ d.leaves = {l} => v \notin d.vals
  BY <1>2
<1> QED
  BY <1>2, <1>4, <1>5

\* Executing a command keeps the invariant.
LEMMA ExecuteStep ==
  ASSUME TypeInv, DiffInv, Execute
  PROVE  TypeInv' /\ DiffInv'
<1>1. /\ page' = page /\ UNCHANGED <<live, asked, goal, plain>> /\ Node' = Node
      /\ Config' = Config /\ Command' = Command /\ Form' = Form
  BY DEF Execute, Node, Config, Command, Form
<1>2. \/ \E c \in drops \union edits :
           /\ session' = Exec(c, session) /\ repeats' = repeats
           /\ \/ c \in drops /\ drops' = drops \ {c} /\ edits' = edits
              \/ drops = {} /\ drops' = {} /\ c \in edits /\ edits' = edits \ {c}
      \/ \E c \in repeats \ edits :
           /\ session' = Exec(c, session) /\ repeats' = repeats \ {c}
           /\ drops' = drops /\ edits' = edits
  BY DEF Execute
<1>3. CASE \E c \in repeats \ edits :
             /\ session' = Exec(c, session) /\ repeats' = repeats \ {c}
             /\ drops' = drops /\ edits' = edits
  <2>1. PICK c \in repeats \ edits :
          /\ session' = Exec(c, session) /\ repeats' = repeats \ {c}
          /\ drops' = drops /\ edits' = edits
    BY <1>3
  <2>2. session' = session
    BY <2>1, RepeatIsIdle DEF DiffInv
  <2>3. TypeInv'
    BY <1>1, <2>1, <2>2 DEF TypeInv
  <2>4. Outcome' = Outcome
    BY <1>1, <2>1, <2>2 DEF Outcome
  <2>5. RepeatInv'
    BY <2>1, <2>2 DEF DiffInv, RepeatInv
  <2> QED
    BY <1>1, <2>1, <2>2, <2>3, <2>4, <2>5
       DEF DiffInv, BatchOK, EditsOK, ContentInv, FormInv, AgainInv, MatterInv, PairInv, Matters
<1>4. CASE \E c \in drops \union edits :
             /\ session' = Exec(c, session) /\ repeats' = repeats
             /\ \/ c \in drops /\ drops' = drops \ {c} /\ edits' = edits
                \/ drops = {} /\ drops' = {} /\ c \in edits /\ edits' = edits \ {c}
  <2>1. PICK c \in drops \union edits :
          /\ session' = Exec(c, session) /\ repeats' = repeats
          /\ \/ c \in drops /\ drops' = drops \ {c} /\ edits' = edits
             \/ drops = {} /\ drops' = {} /\ c \in edits /\ edits' = edits \ {c}
    BY <1>4
  <2>2. BatchOK /\ c \in Command /\ drops' \subseteq drops /\ edits' \subseteq edits
    BY <2>1 DEF DiffInv, TypeInv
  <2>3. TypeInv'
    <3>1. session' \in Config
      BY <2>1, <2>2, ExecType DEF TypeInv
    <3> QED
      BY <1>1, <2>1, <2>2, <3>1 DEF TypeInv
  <2>4. Outcome' = Outcome
    BY <1>1, <2>1, <2>2, DropOutcome, EditOutcome
  <2>5. BatchOK'
    BY <2>2, BatchStaysOK
  <2>6. ContentInv'
    <3>1. \A n \in Node : OneValue(session'[n])
      BY <2>1, <2>2, OneValueStays DEF DiffInv, ContentInv
    <3> QED
      BY <1>1, <2>4, <3>1 DEF DiffInv, ContentInv
  <2>7. FormInv' /\ AgainInv' /\ PairInv'
    BY <1>1, <2>4 DEF DiffInv, FormInv, AgainInv, PairInv
  <2>8. MatterInv'
    BY <1>1, <2>1, <2>2, DropMatters, EditMatters DEF DiffInv, MatterInv
  <2>9. RepeatInv'
    BY <1>1, <2>1, <2>2, RepeatStays DEF DiffInv
  <2> QED
    BY <2>3, <2>5, <2>6, <2>7, <2>8, <2>9 DEF DiffInv
<1> QED
  BY <1>2, <1>3, <1>4

\* At the end of a batch the outcome is the session.
LEMMA OutcomeIsSession ==
  TypeInv /\ drops = {} /\ edits = {} => Outcome = session
<1> SUFFICES ASSUME TypeInv, drops = {}, edits = {} PROVE Outcome = session
  OBVIOUS
<1>1. \A n \in Node : session[n] \in Content
  BY DEF TypeInv, Config
<1>2. \A n \in Node : After({}, {}, session[n], n) = session[n]
  BY <1>1, AfterNothing
<1> QED
  BY <1>2 DEF Outcome, TypeInv, Config

\* The session is committed with the outcome; a plain request is never refused.
LEMMA EndStep ==
  ASSUME TypeInv, DiffInv, EndSession
  PROVE  TypeInv' /\ DiffInv'
<1>1. /\ drops = {} /\ edits = {} /\ drops' = {} /\ edits' = {} /\ page' = page
      /\ repeats' = {}
      /\ Node' = Node /\ Config' = Config /\ Command' = Command /\ Form' = Form
  BY DEF EndSession, Node, Config, Command, Form
<1>2. Outcome = session
  BY <1>1, OutcomeIsSession
<1>o. (TypeInv /\ drops = {} /\ edits = {})' => (Outcome = session)'
  BY OutcomeIsSession, PTL
<1>3. CASE \A n \in Node : Valid(n[1], session[n])
  <2>1. live' = session /\ UNCHANGED <<session, asked, goal, plain>>
    BY <1>3 DEF EndSession
  <2>2. TypeInv'
    BY <1>1, <2>1 DEF TypeInv
  <2>3. Outcome' = Outcome
    BY <1>1, <1>2, <1>o, <2>1, <2>2
  <2> QED
  BY <1>1, <1>2, <1>3, <2>1, <2>2, <2>3
     DEF DiffInv, BatchOK, EditsOK, ContentInv, FormInv, AgainInv, MatterInv, PairInv, Matters,
         RepeatInv
<1>4. CASE ~\A n \in Node : Valid(n[1], session[n])
  <2>1. session' = live /\ asked' = {} /\ UNCHANGED <<live, goal, plain>>
    BY <1>4 DEF EndSession
  <2>2. TypeInv'
    BY <1>1, <2>1 DEF TypeInv
  <2>3. Outcome' = live
    BY <1>1, <1>o, <2>1, <2>2
  <2>4. ~plain
    BY <1>2, <1>4 DEF DiffInv, FormInv
  <2> QED
    BY <1>1, <2>1, <2>2, <2>3, <2>4
       DEF DiffInv, BatchOK, EditsOK, ContentInv, FormInv, AgainInv, MatterInv, PairInv, Sound,
           RepeatInv
<1> QED
  BY <1>3, <1>4

-----------------------------------------------------------------------------
(***************************************************************************)
(* The diffs                                                               *)
(***************************************************************************)

\* Which commands compare the leaves of a node.
LEMMA LeavesCommand ==
  ASSUME NEW n, NEW L, NEW have, NEW want, NEW c \in LeavesDiff(n, L, have, want)
  PROVE  \E l \in L :
           \/ l \notin Multi /\ want[l] # have[l] /\ \E v \in want[l] : c = Set(n, l, v)
           \/ l \notin Multi /\ want[l] # have[l] /\ want[l] = {} /\ c = Delete(n, {l}, Value)
           \/ l \in Multi /\ \E v \in want[l] \ have[l] : c = Set(n, l, v)
           \/ l \in Multi /\ \E v \in have[l] \ want[l] : c = Delete(n, {l}, {v})
<1>1. PICK l \in L : c \in IF l \in Multi THEN ValueDiff(n, l, have[l], want[l])
                                          ELSE LeafDiff(n, l, have[l], want[l])
  BY DEF LeavesDiff
<1>2. CASE l \in Multi
  <2>1. c \in ValueDiff(n, l, have[l], want[l])
    BY <1>1, <1>2
  <2>2. \/ \E v \in want[l] \ have[l] : c = Set(n, l, v)
        \/ \E v \in have[l] \ want[l] : c = Delete(n, {l}, {v})
    BY <2>1 DEF ValueDiff
  <2> QED
    BY <1>2, <2>2
<1>3. CASE l \notin Multi
  <2>1. c \in LeafDiff(n, l, have[l], want[l])
    BY <1>1, <1>3
  <2>2. /\ want[l] # have[l]
        /\ \/ \E v \in want[l] : c = Set(n, l, v)
           \/ want[l] = {} /\ c = Delete(n, {l}, Value)
    BY <2>1 DEF LeafDiff
  <2> QED
    BY <1>3, <2>2
<1> QED
  BY <1>2, <1>3

LEMMA LeavesCommands ==
  ASSUME NEW n, NEW L, NEW have, NEW want, NEW l \in L
  PROVE  /\ l \notin Multi /\ want[l] # have[l] =>
              \A v \in want[l] : Set(n, l, v) \in LeavesDiff(n, L, have, want)
         /\ l \notin Multi /\ want[l] # have[l] /\ want[l] = {} =>
              Delete(n, {l}, Value) \in LeavesDiff(n, L, have, want)
         /\ l \in Multi =>
              /\ \A v \in want[l] \ have[l] : Set(n, l, v) \in LeavesDiff(n, L, have, want)
              /\ \A v \in have[l] \ want[l] :
                   Delete(n, {l}, {v}) \in LeavesDiff(n, L, have, want)
<1>1. (IF l \in Multi THEN ValueDiff(n, l, have[l], want[l])
                      ELSE LeafDiff(n, l, have[l], want[l])) \subseteq LeavesDiff(n, L, have, want)
  BY DEF LeavesDiff
<1>2. /\ \A v \in want[l] \ have[l] : Set(n, l, v) \in ValueDiff(n, l, have[l], want[l])
      /\ \A v \in have[l] \ want[l] : Delete(n, {l}, {v}) \in ValueDiff(n, l, have[l], want[l])
  BY DEF ValueDiff
<1>3. want[l] # have[l] =>
        /\ \A v \in want[l] : Set(n, l, v) \in LeafDiff(n, l, have[l], want[l])
        /\ want[l] = {} => Delete(n, {l}, Value) \in LeafDiff(n, l, have[l], want[l])
  BY DEF LeafDiff
<1> QED
  BY <1>1, <1>2, <1>3

\* The values that the comparison of a leaf sets, and those that it deletes.
Gains(L, have, want, l) ==
  IF l \notin L THEN {}
  ELSE IF l \in Multi THEN want[l] \ have[l]
  ELSE IF want[l] = have[l] THEN {} ELSE want[l]
Loses(L, have, want, l) ==
  IF l \notin L THEN {}
  ELSE IF l \in Multi THEN have[l] \ want[l]
  ELSE IF want[l] = have[l] \/ want[l] # {} THEN {} ELSE Value

LEMMA LeavesSetBy ==
  ASSUME NEW n, NEW L \in SUBSET Leaf, NEW have \in Content, NEW want \in Content, NEW l \in Leaf
  PROVE  SetBy(LeavesDiff(n, L, have, want), n, l) = Gains(L, have, want, l)
<1> DEFINE E == LeavesDiff(n, L, have, want)
<1>1. ASSUME NEW v \in SetBy(E, n, l)
      PROVE  /\ l \in L /\ v \in want[l]
             /\ l \in Multi => v \notin have[l]
             /\ l \notin Multi => want[l] # have[l]
  <2>1. PICK c \in E : c.op = "set" /\ l \in c.leaves /\ v \in c.vals
    BY DEF SetBy
  <2> QED
    BY <2>1, LeavesCommand DEF Set, Delete
<1>2. ASSUME l \in L, NEW v \in want[l],
             l \in Multi => v \notin have[l], l \notin Multi => want[l] # have[l]
      PROVE  v \in SetBy(E, n, l)
  <2>1. Set(n, l, v) \in E
    BY <1>2, LeavesCommands
  <2>2. v \in Value
    BY DEF Content
  <2> QED
    BY <2>1, <2>2 DEF SetBy, Set
<1> HIDE DEF E
<1>3. SetBy(E, n, l) = Gains(L, have, want, l)
  BY <1>1, <1>2 DEF Gains
<1> QED
  BY <1>3 DEF E

LEMMA LeavesCutBy ==
  ASSUME NEW n, NEW L \in SUBSET Leaf, NEW have \in Content, NEW want \in Content, NEW l \in Leaf
  PROVE  CutBy(LeavesDiff(n, L, have, want), n, l) = Loses(L, have, want, l)
<1> DEFINE E == LeavesDiff(n, L, have, want)
<1>1. ASSUME NEW v \in CutBy(E, n, l)
      PROVE  /\ l \in L
             /\ l \in Multi => v \in have[l] /\ v \notin want[l]
             /\ l \notin Multi => want[l] # have[l] /\ want[l] = {} /\ v \in Value
  <2>1. PICK c \in E : c.op = "delete" /\ l \in c.leaves /\ v \in c.vals
    BY DEF CutBy
  <2> QED
    BY <2>1, LeavesCommand DEF Set, Delete
<1>2. ASSUME l \in L, NEW v \in Value,
             l \in Multi => v \in have[l] /\ v \notin want[l],
             l \notin Multi => want[l] # have[l] /\ want[l] = {}
      PROVE  v \in CutBy(E, n, l)
  <2>1. \E vals : v \in vals /\ Delete(n, {l}, vals) \in E
    BY <1>2, LeavesCommands
  <2> QED
    BY <2>1 DEF CutBy, Delete
<1>3. have[l] \subseteq Value
  BY DEF Content
<1> HIDE DEF E
<1>4. CutBy(E, n, l) = Loses(L, have, want, l)
  BY <1>1, <1>2, <1>3 DEF Loses
<1> QED
  BY <1>4 DEF E

\* They touch only the leaves that are compared, each once or each value once.
LEMMA LeavesShape ==
  ASSUME NEW n \in Node, NEW L \in SUBSET Leaf, NEW have \in Content, NEW want \in Content,
         OneValue(want), "node" \notin L
  PROVE  /\ LeavesDiff(n, L, have, want) \subseteq Command
         /\ EditsOK(LeavesDiff(n, L, have, want))
         /\ \A c \in LeavesDiff(n, L, have, want) : c.node = n /\ c.leaves \subseteq L
<1> DEFINE E == LeavesDiff(n, L, have, want)
<1>1. \A l \in Leaf : have[l] \subseteq Value /\ want[l] \subseteq Value
  BY DEF Content
<1>2. ASSUME NEW c \in E
      PROVE  /\ c \in Command /\ c.node = n
             /\ \E l \in L :
                  /\ c.leaves = {l}
                  /\ c.op = "set" => \E v \in Value : c.vals = {v} /\ v \in want[l]
                  /\ c.op = "delete" => c.vals \intersect want[l] = {}
                  /\ l \notin Multi => want[l] # have[l]
                  /\ l \notin Multi /\ c.op = "delete" => c.vals = Value /\ want[l] = {}
                  /\ l \in Multi => \E v \in Value : c.vals = {v}
  <2>1. PICK l \in L :
           \/ l \notin Multi /\ want[l] # have[l] /\ \E v \in want[l] : c = Set(n, l, v)
           \/ l \notin Multi /\ want[l] # have[l] /\ want[l] = {} /\ c = Delete(n, {l}, Value)
           \/ l \in Multi /\ \E v \in want[l] \ have[l] : c = Set(n, l, v)
           \/ l \in Multi /\ \E v \in have[l] \ want[l] : c = Delete(n, {l}, {v})
    BY <1>2, LeavesCommand DEF Set, Delete
  <2>2. l \in Leaf
    OBVIOUS
  <2>3. ASSUME NEW v \in want[l], c = Set(n, l, v)
        PROVE  /\ c \in Command /\ c.node = n /\ c.op = "set" /\ c.leaves = {l}
               /\ c.vals = {v} /\ v \in Value
    BY <1>1, <2>2, <2>3 DEF Set, Command
  <2>4. ASSUME NEW vals \in SUBSET Value, c = Delete(n, {l}, vals)
        PROVE  /\ c \in Command /\ c.node = n /\ c.op = "delete" /\ c.leaves = {l}
               /\ c.vals = vals
    BY <1>1, <2>2, <2>4 DEF Delete, Command
  <2>5. CASE l \notin Multi /\ want[l] # have[l] /\ \E v \in want[l] : c = Set(n, l, v)
    BY <2>3, <2>5
  <2>6. CASE l \notin Multi /\ want[l] # have[l] /\ want[l] = {} /\ c = Delete(n, {l}, Value)
    BY <2>4, <2>6
  <2>7. CASE l \in Multi /\ \E v \in want[l] \ have[l] : c = Set(n, l, v)
    BY <2>3, <2>7
  <2>8. CASE l \in Multi /\ \E v \in have[l] \ want[l] : c = Delete(n, {l}, {v})
    <3>1. PICK v \in have[l] \ want[l] : c = Delete(n, {l}, {v})
      BY <2>8
    <3>2. v \in Value
      BY <1>1, <2>2
    <3>3. c.node = n /\ c.op = "delete" /\ c.leaves = {l} /\ c.vals = {v} /\ c \in Command
      BY <2>4, <3>1, <3>2
    <3> QED
      BY <2>8, <3>1, <3>2, <3>3
  <2> QED
    BY <2>1, <2>5, <2>6, <2>7, <2>8
<1> HIDE DEF E
<1>3. ASSUME NEW c \in E, NEW d \in E, c.leaves = d.leaves, c # d
      PROVE  c.leaves \subseteq Multi /\ c.vals \intersect d.vals = {}
  <2>1. PICK l \in L :
          /\ c.leaves = {l}
          /\ c.op = "set" => \E v \in Value : c.vals = {v} /\ v \in want[l]
          /\ c.op = "delete" => c.vals \intersect want[l] = {}
          /\ l \notin Multi => want[l] # have[l]
          /\ l \notin Multi /\ c.op = "delete" => c.vals = Value /\ want[l] = {}
          /\ l \in Multi => \E v \in Value : c.vals = {v}
    BY <1>2
  <2>2. /\ d.op = "set" => \E v \in Value : d.vals = {v} /\ v \in want[l]
        /\ d.op = "delete" => d.vals \intersect want[l] = {}
        /\ l \notin Multi /\ d.op = "delete" => d.vals = Value /\ want[l] = {}
        /\ l \in Multi => \E v \in Value : d.vals = {v}
    BY <1>2, <1>3, <2>1
  <2>3. /\ c \in Command /\ d \in Command /\ c.node = n /\ d.node = n
        /\ c.op \in {"set", "delete"} /\ d.op \in {"set", "delete"}
    BY <1>2 DEF Command
  <2>4. c.op # d.op \/ c.vals # d.vals
    BY <1>3, <2>3 DEF Command
  <2>5. CASE l \in Multi
    <3>1. PICK v \in Value, w \in Value : c.vals = {v} /\ d.vals = {w}
      BY <2>1, <2>2, <2>5
    <3>2. CASE c.op = d.op
      BY <2>1, <2>4, <2>5, <3>1, <3>2
    <3>3. CASE c.op # d.op
      BY <2>1, <2>2, <2>3, <2>5, <3>1, <3>3
    <3> QED
      BY <3>2, <3>3
  <2>6. CASE l \notin Multi
    <3>1. PICK v \in Value : want[l] \subseteq {v}
      BY <2>6 DEF OneValue
    <3>2. CASE c.op = "set"
      BY <2>1, <2>2, <2>3, <2>4, <2>6, <3>1, <3>2
    <3>3. CASE c.op = "delete"
      BY <2>1, <2>2, <2>3, <2>4, <2>6, <3>1, <3>3
    <3> QED
      BY <2>3, <3>2, <3>3
  <2> QED
    BY <2>5, <2>6
<1>4. EditsOK(E)
  <2>1. ASSUME NEW c \in E
        PROVE  \E l \in Leaf :
                 /\ c.leaves = {l}
                 /\ c.op = "set" => \E v \in Value : c.vals = {v}
                 /\ c.op = "delete" => l # "node"
                 /\ l = "node" => c.vals = {Present}
    <3>1. PICK l \in L : c.leaves = {l} /\ (c.op = "set" => \E v \in Value : c.vals = {v})
      BY <1>2
    <3> QED
      BY <3>1
  <2> QED
    BY <1>3, <2>1 DEF EditsOK
<1>5. E \subseteq Command /\ \A c \in E : c.node = n /\ c.leaves \subseteq L
  BY <1>2
<1> QED
  BY <1>4, <1>5 DEF E

\* Each of them has something to do where the leaf is as it was compared.
EditsDo(es, content) ==
  \A c \in es : \A l \in c.leaves :
    /\ c.op = "set" => content[l] \intersect c.vals = {}
    /\ c.op = "delete" => content[l] \intersect c.vals # {}

LEMMA LeavesDo ==
  ASSUME NEW n, NEW L \in SUBSET Leaf, NEW have \in Content, NEW want \in Content,
         OneValue(want), OneValue(have)
  PROVE  EditsDo(LeavesDiff(n, L, have, want), have)
<1> SUFFICES ASSUME NEW c \in LeavesDiff(n, L, have, want), NEW k \in c.leaves
             PROVE  /\ c.op = "set" => have[k] \intersect c.vals = {}
                    /\ c.op = "delete" => have[k] \intersect c.vals # {}
  BY DEF EditsDo
<1>1. PICK l \in L :
         \/ l \notin Multi /\ want[l] # have[l] /\ \E v \in want[l] : c = Set(n, l, v)
         \/ l \notin Multi /\ want[l] # have[l] /\ want[l] = {} /\ c = Delete(n, {l}, Value)
         \/ l \in Multi /\ \E v \in want[l] \ have[l] : c = Set(n, l, v)
         \/ l \in Multi /\ \E v \in have[l] \ want[l] : c = Delete(n, {l}, {v})
  BY LeavesCommand DEF Set, Delete
<1>2. k = l /\ have[l] \subseteq Value
  BY <1>1 DEF Set, Delete, Content
<1>3. ASSUME l \notin Multi, want[l] # have[l], NEW v \in want[l], c = Set(n, l, v)
      PROVE  c.op = "set" /\ have[k] \intersect c.vals = {}
  <2>1. (\E w \in Value : want[l] \subseteq {w}) /\ (\E w \in Value : have[l] \subseteq {w})
    BY <1>3 DEF OneValue
  <2>2. v \notin have[l]
    BY <1>3, <2>1
  <2> QED
    BY <1>2, <1>3, <2>2 DEF Set
<1>4. ASSUME l \notin Multi, want[l] # have[l], want[l] = {}, c = Delete(n, {l}, Value)
      PROVE  c.op = "delete" /\ have[k] \intersect c.vals # {}
  BY <1>2, <1>4 DEF Delete
<1>5. ASSUME NEW v \in want[l] \ have[l], c = Set(n, l, v)
      PROVE  c.op = "set" /\ have[k] \intersect c.vals = {}
  BY <1>2, <1>5 DEF Set
<1>6. ASSUME NEW v \in have[l] \ want[l], c = Delete(n, {l}, {v})
      PROVE  c.op = "delete" /\ have[k] \intersect c.vals # {}
  BY <1>2, <1>6 DEF Delete
<1> QED
  BY <1>1, <1>3, <1>4, <1>5, <1>6

\* A form gives an interface by name or group, a device in one of three ways.
OneIface(content) == \A k, l \in Iface : content[k] # {} /\ content[l] # {} => k = l
AskedIface(want) == want["bare"] = {} /\ (want["name"] = {} \/ want["group"] = {})

LEMMA IfaceLeaves ==
  /\ "name" \in Leaf /\ "group" \in Leaf /\ "bare" \in Leaf /\ "node" \in Leaf
  /\ "name" \notin Multi /\ "group" \notin Multi /\ "bare" \notin Multi /\ "node" \notin Multi
  /\ Iface \subseteq Leaf /\ Present \in Value
BY LeafAssumption, SingleAssumption DEF Iface

\* A new interface is set by one command, and it was not set that way before.
LEMMA IfaceShape ==
  ASSUME NEW n \in Node, NEW have \in Content, NEW want \in Content,
         OneValue(have), OneValue(want), OneIface(have), AskedIface(want)
  PROVE  /\ IfaceSet(n, have, want) \subseteq Command
         /\ \A c \in IfaceSet(n, have, want) :
              \E l \in {"name", "group"}, v \in Value :
                /\ c.op = "set" /\ c.node = n /\ c.leaves = {l} /\ c.vals = {v}
                /\ v \in want[l] /\ v \notin have[l]
         /\ \A c, d \in IfaceSet(n, have, want) : c = d
<1> DEFINE k == IfaceOf(want).kind
           vals == IfaceOf(want).vals
<1>1. k \in {"name", "group"} /\ vals = want[k] /\ k \in Leaf /\ k \notin Multi
  BY IfaceLeaves DEF IfaceOf, AskedIface
<1>2. vals \subseteq Value /\ \E w \in Value : vals \subseteq {w}
  BY <1>1 DEF Content, OneValue
<1>3. ASSUME NEW c \in IfaceSet(n, have, want)
      PROVE  IfaceOf(have) # IfaceOf(want) /\ \E v \in vals : c = Set(n, k, v)
  BY <1>3 DEF IfaceSet
<1>4. ASSUME IfaceOf(have) # IfaceOf(want), NEW v \in vals PROVE v \notin have[k]
  <2> SUFFICES ASSUME v \in have[k] PROVE FALSE
    OBVIOUS
  <2>1. have[k] = vals
    <3>1. \E w \in Value : have[k] \subseteq {w}
      BY <1>1 DEF OneValue
    <3> QED
      BY <1>2, <1>4, <3>1
  <2>2. IfaceOf(have) = [kind |-> k, vals |-> have[k]]
    BY <1>1 DEF IfaceOf, OneIface, Iface
  <2>3. IfaceOf(want) = [kind |-> k, vals |-> vals]
    BY DEF IfaceOf
  <2> QED
    BY <1>4, <2>1, <2>2, <2>3
<1> HIDE DEF k, vals
<1>5. ASSUME NEW c \in IfaceSet(n, have, want)
      PROVE  /\ c \in Command
             /\ \E l \in {"name", "group"}, v \in Value :
                  /\ c.op = "set" /\ c.node = n /\ c.leaves = {l} /\ c.vals = {v}
                  /\ v \in want[l] /\ v \notin have[l]
  <2>1. PICK v \in vals : c = Set(n, k, v)
    BY <1>3
  <2>2. v \in Value /\ v \in want[k] /\ v \notin have[k]
    BY <1>1, <1>2, <1>3, <1>4
  <2>3. c.op = "set" /\ c.node = n /\ c.leaves = {k} /\ c.vals = {v} /\ c \in Command
    BY <1>1, <2>1, <2>2 DEF Set, Command
  <2> QED
    BY <1>1, <2>2, <2>3
<1>6. ASSUME NEW c \in IfaceSet(n, have, want), NEW d \in IfaceSet(n, have, want) PROVE c = d
  <2>1. PICK v \in vals : c = Set(n, k, v)
    BY <1>3
  <2>2. PICK w \in vals : d = Set(n, k, w)
    BY <1>3
  <2>3. v = w
    BY <1>2
  <2> QED
    BY <2>1, <2>2, <2>3
<1> QED
  BY <1>5, <1>6

LEMMA IfaceSetBy ==
  ASSUME NEW n, NEW have \in Content, NEW want \in Content, AskedIface(want), NEW l \in Leaf
  PROVE  SetBy(IfaceSet(n, have, want), n, l) =
           IF l \in {"name", "group"} /\ IfaceOf(have) # IfaceOf(want) THEN want[l] ELSE {}
<1> DEFINE k == IfaceOf(want).kind
           vals == IfaceOf(want).vals
<1>1. /\ k \in {"name", "group"} /\ vals = want[k]
      /\ \A j \in {"name", "group"} : j # k => want[j] = {}
  BY DEF IfaceOf, AskedIface
<1>2. vals \subseteq Value
  BY <1>1, IfaceLeaves DEF Content
<1>3. CASE IfaceOf(have) = IfaceOf(want)
  <2>1. IfaceSet(n, have, want) = {}
    BY <1>3 DEF IfaceSet
  <2> QED
    BY <1>3, <2>1 DEF SetBy
<1>4. CASE IfaceOf(have) # IfaceOf(want)
  <2>1. IfaceSet(n, have, want) = {Set(n, k, v) : v \in vals}
    BY <1>4 DEF IfaceSet
  <2> HIDE DEF k, vals
  <2>2. SetBy({Set(n, k, v) : v \in vals}, n, l) = IF l = k THEN vals ELSE {}
    <3> DEFINE E == {Set(n, k, v) : v \in vals}
    <3>1. \A c \in E : c.op = "set" /\ c.node = n /\ c.leaves = {k}
                      /\ \E v \in vals : c.vals = {v}
      BY DEF Set
    <3>2. \A v \in vals : \E c \in E : c.op = "set" /\ c.node = n /\ c.leaves = {k}
                                     /\ c.vals = {v}
      <4> TAKE v \in vals
      <4> WITNESS Set(n, k, v) \in E
      <4> QED
        BY DEF Set
    <3> HIDE DEF E
    <3>3. \A v \in SetBy(E, n, l) : l = k /\ v \in vals
      BY <3>1 DEF SetBy
    <3>4. l = k => \A v \in vals : v \in SetBy(E, n, l)
      BY <1>2, <3>2 DEF SetBy
    <3>5. SetBy(E, n, l) = IF l = k THEN vals ELSE {}
      BY <3>3, <3>4
    <3> QED
      BY <3>5 DEF E
  <2> QED
    BY <1>1, <1>4, <2>1, <2>2
<1> QED
  BY <1>3, <1>4

\* The second set of commands of a NIC, a vif or a NAT rule.
ObjectSets(n, L, have, want) == LeavesDiff(n, L, have, want) \union IfaceSet(n, have, want)
ObjectEdits(n, L, have, want) ==
  IF have["node"] = {} /\ \A c \in ObjectSets(n, L, have, want) : c.op # "set"
  THEN ObjectSets(n, L, have, want) \union {Create(n)}
  ELSE ObjectSets(n, L, have, want)

LEMMA CreateFields ==
  ASSUME NEW n
  PROVE  /\ Create(n).op = "set" /\ Create(n).node = n
         /\ Create(n).leaves = {"node"} /\ Create(n).vals = {Present}
BY DEF Create, Set

LEMMA UnionBy ==
  ASSUME NEW A, NEW B, NEW n, NEW l
  PROVE  /\ SetBy(A \union B, n, l) = SetBy(A, n, l) \union SetBy(B, n, l)
         /\ CutBy(A \union B, n, l) = CutBy(A, n, l) \union CutBy(B, n, l)
BY DEF SetBy, CutBy

\* They do not undo each other, and each has something to do.
LEMMA ObjectShape ==
  ASSUME NEW n \in Node, NEW L \in SUBSET Leaf, NEW have \in Content, NEW want \in Content,
         OneValue(have), OneValue(want), OneIface(have), AskedIface(want),
         L \intersect Iface = {}, "node" \notin L
  PROVE  /\ ObjectEdits(n, L, have, want) \subseteq Command
         /\ EditsOK(ObjectEdits(n, L, have, want))
         /\ EditsDo(ObjectEdits(n, L, have, want), have)
         /\ \A c \in ObjectEdits(n, L, have, want) :
              /\ c.node = n
              /\ c.leaves \subseteq L \union {"name", "group", "node"}
              /\ c.op = "delete" => c.leaves \subseteq L
              /\ "node" \in c.leaves =>
                   \A d \in ObjectEdits(n, L, have, want) : d.op = "set" => d = c
<1> DEFINE A == LeavesDiff(n, L, have, want)
           B == IfaceSet(n, have, want)
           E == ObjectEdits(n, L, have, want)
           C == Create(n)
<1>1. A \subseteq Command /\ EditsOK(A) /\ \A c \in A : c.node = n /\ c.leaves \subseteq L
  BY LeavesShape
<1>2. /\ B \subseteq Command
      /\ \A c \in B : \E l \in {"name", "group"}, v \in Value :
           /\ c.op = "set" /\ c.node = n /\ c.leaves = {l} /\ c.vals = {v}
           /\ v \in want[l] /\ v \notin have[l]
      /\ \A c, d \in B : c = d
  BY IfaceShape
<1>3. /\ C.op = "set" /\ C.node = n
      /\ C.leaves = {"node"} /\ C.vals = {Present}
  BY CreateFields
<1>4. C \in Command
  BY <1>3, IfaceLeaves DEF Command, Create, Set
<1>5. E \subseteq A \union B \union {C}
  BY DEF ObjectEdits, ObjectSets
<1>6. C \in E => have["node"] = {} /\ \A c \in E : c.op = "set" => c = C
  <2>1. CASE have["node"] = {} /\ \A c \in ObjectSets(n, L, have, want) : c.op # "set"
    BY <2>1 DEF ObjectEdits
  <2>2. CASE ~(have["node"] = {} /\ \A c \in ObjectSets(n, L, have, want) : c.op # "set")
    <3>1. E = A \union B
      BY <2>2 DEF ObjectEdits, ObjectSets
    <3>2. \A c \in A \union B : "node" \notin c.leaves
      BY <1>1, <1>2
    <3> QED
      BY <1>3, <3>1, <3>2
  <2> QED
    BY <2>1, <2>2
<1>7. EditsDo(A, have)
  BY LeavesDo
<1> HIDE DEF A, B, C, E
<1>8. \A c \in B : c.op = "set" /\ c.leaves \subseteq {"name", "group"}
  BY <1>2
<1>9. "name" \notin L /\ "group" \notin L
  BY DEF Iface
<1>10. \A c \in E :
         /\ c.node = n
         /\ c.leaves \subseteq L \union {"name", "group", "node"}
         /\ c.op = "delete" => c.leaves \subseteq L
         /\ "node" \in c.leaves => c = C
  BY <1>1, <1>2, <1>3, <1>5, <1>8
<1>11. \A c \in E : "node" \in c.leaves => \A d \in E : d.op = "set" => d = c
  BY <1>6, <1>10
<1>12. EditsDo(E, have)
  <2>1. ASSUME NEW c \in B, NEW l \in c.leaves
        PROVE  c.op = "set" /\ have[l] \intersect c.vals = {}
    BY <1>2
  <2> QED
    BY <1>3, <1>5, <1>6, <1>7, <2>1 DEF EditsDo
<1>13. EditsOK(E)
  <2>1. ASSUME NEW c \in E
        PROVE  \E l \in Leaf : /\ c.leaves = {l}
                               /\ c.op = "set" => \E v \in Value : c.vals = {v}
                               /\ c.op = "delete" => l # "node"
                               /\ l = "node" => c.vals = {Present}
    <3>1. CASE c \in A
      BY <1>1, <3>1 DEF EditsOK
    <3>2. CASE c \in B
      <4>1. PICK l \in {"name", "group"}, v \in Value :
              c.op = "set" /\ c.leaves = {l} /\ c.vals = {v}
        BY <1>2, <3>2
      <4> QED
        BY <4>1, IfaceLeaves
    <3>3. CASE c = C
      BY <1>3, <3>3, IfaceLeaves
    <3> QED
      BY <1>5, <3>1, <3>2, <3>3
  <2>2. ASSUME NEW c \in E, NEW d \in E, c.node = d.node, c.leaves = d.leaves, c # d
        PROVE  c.leaves \subseteq Multi /\ c.vals \intersect d.vals = {}
    <3>1. c.leaves # {}
      BY <2>1
    <3>2. CASE c \in A /\ d \in A
      BY <1>1, <2>2, <3>2 DEF EditsOK
    <3>3. CASE c \in B /\ d \in B
      BY <1>2, <2>2, <3>3
    <3>4. CASE (c \in A /\ d \in B) \/ (c \in B /\ d \in A)
      BY <1>1, <1>8, <1>9, <2>2, <3>1, <3>4
    <3>5. CASE c = C \/ d = C
      BY <1>3, <1>10, <2>2, <3>5
    <3>6. (c \in A \/ c \in B \/ c = C) /\ (d \in A \/ d \in B \/ d = C)
      BY <1>5
    <3> QED
      BY <3>2, <3>3, <3>4, <3>5, <3>6
  <2> QED
    BY <2>1, <2>2 DEF EditsOK
<1>14. E \subseteq Command
  BY <1>1, <1>2, <1>4, <1>5
<1> QED
  BY <1>10, <1>11, <1>12, <1>13, <1>14 DEF E

\* What they set and delete.
LEMMA ObjectBy ==
  ASSUME NEW n \in Node, NEW L \in SUBSET Leaf, NEW have \in Content, NEW want \in Content,
         OneValue(have), OneValue(want), OneIface(have), AskedIface(want),
         L \intersect Iface = {}, "node" \notin L, NEW l \in Leaf
  PROVE  LET E == ObjectEdits(n, L, have, want)
         IN /\ l # "node" => SetBy(E, n, l) = SetBy(LeavesDiff(n, L, have, want), n, l)
                                \union SetBy(IfaceSet(n, have, want), n, l)
            /\ CutBy(E, n, l) = CutBy(LeavesDiff(n, L, have, want), n, l)
            /\ have["node"] = {} => Creates(E, n)
<1> DEFINE A == LeavesDiff(n, L, have, want)
           B == IfaceSet(n, have, want)
           E == ObjectEdits(n, L, have, want)
           C == Create(n)
<1>1. \A c \in B : c.op = "set"
  BY IfaceShape
<1>2. /\ C.op = "set" /\ C.node = n
      /\ C.leaves = {"node"} /\ C.vals = {Present}
  BY CreateFields
<1>3. E = A \union B \/ E = (A \union B) \union {C}
  BY DEF ObjectEdits, ObjectSets
<1>4. have["node"] = {} => Creates(E, n)
  <2>1. CASE \A c \in ObjectSets(n, L, have, want) : c.op # "set"
    BY <1>2, <2>1 DEF ObjectEdits, Creates
  <2>2. CASE ~\A c \in ObjectSets(n, L, have, want) : c.op # "set"
    <3>1. PICK c \in A \union B : c.op = "set"
      BY <2>2 DEF ObjectSets
    <3>2. c.node = n
      BY <3>1, LeavesShape, IfaceShape
    <3> QED
      BY <1>3, <3>1, <3>2 DEF Creates
  <2> QED
    BY <2>1, <2>2
<1>5. l # "node" => SetBy({C}, n, l) = {}
  BY <1>2 DEF SetBy
<1>6. CutBy({C}, n, l) = {} /\ CutBy(B, n, l) = {}
  BY <1>1, <1>2 DEF CutBy
<1> HIDE DEF A, B, C, E
<1>u. /\ SetBy(A \union B, n, l) = SetBy(A, n, l) \union SetBy(B, n, l)
      /\ CutBy(A \union B, n, l) = CutBy(A, n, l) \union CutBy(B, n, l)
  BY UnionBy
<1>7. /\ SetBy((A \union B) \union {C}, n, l) = SetBy(A \union B, n, l) \union SetBy({C}, n, l)
      /\ CutBy((A \union B) \union {C}, n, l) = CutBy(A \union B, n, l) \union CutBy({C}, n, l)
  <2> DEFINE S == A \union B
             T == {C}
  <2> HIDE DEF S, T
  <2>1. /\ SetBy(S \union T, n, l) = SetBy(S, n, l) \union SetBy(T, n, l)
        /\ CutBy(S \union T, n, l) = CutBy(S, n, l) \union CutBy(T, n, l)
    BY UnionBy
  <2> QED
    BY <2>1 DEF S, T
<1>8. /\ l # "node" => SetBy(E, n, l) = SetBy(A, n, l) \union SetBy(B, n, l)
      /\ CutBy(E, n, l) = CutBy(A, n, l)
  BY <1>3, <1>5, <1>6, <1>7, <1>u
<1> QED
  BY <1>4, <1>8 DEF A, B, E

\* What a NIC, a vif or a NAT rule is after the commands: where its leaves are
\* compared with what is there, they become what the form has, and the others stay.
IfaceGoes(have, want) == IfaceOf(have) # IfaceOf(want)

LEMMA IfaceDropped ==
  ASSUME NEW n, NEW have, NEW want, NEW l \in Leaf
  PROVE  DroppedBy(IfaceDrop(n, have, want), n, l) =
           IF IfaceGoes(have, want) /\ IfaceOf(have).vals # {} /\ l \in Iface THEN Value ELSE {}
<1>1. CASE IfaceGoes(have, want) /\ IfaceOf(have).vals # {}
  <2>1. IfaceDrop(n, have, want) = {Delete(n, Iface, Value)}
    BY <1>1 DEF IfaceDrop, IfaceGoes
  <2>2. /\ Delete(n, Iface, Value).node = n /\ Delete(n, Iface, Value).leaves = Iface
        /\ Delete(n, Iface, Value).vals = Value
    BY DEF Delete
  <2> QED
    BY <1>1, <2>1, <2>2 DEF DroppedBy
<1>2. CASE ~(IfaceGoes(have, want) /\ IfaceOf(have).vals # {})
  <2>1. IfaceDrop(n, have, want) = {}
    BY <1>2 DEF IfaceDrop, IfaceGoes
  <2> QED
    BY <1>2, <2>1 DEF DroppedBy
<1> QED
  BY <1>1, <1>2

ObjectReached(R, L, have, want) ==
  /\ R["node"] = {Present}
  /\ \A l \in L : R[l] = want[l]
  /\ IfaceGoes(have, want) =>
       R["name"] = want["name"] /\ R["group"] = want["group"] /\ R["bare"] = {}
  /\ ~IfaceGoes(have, want) => \A l \in Iface : R[l] = have[l]
  /\ \A l \in Leaf \ (L \union Iface \union {"node"}) : R[l] = have[l]

LEMMA ObjectAfter ==
  ASSUME NEW n \in Node, NEW L \in SUBSET Leaf, NEW have \in Content, NEW want \in Content,
         OneValue(have), OneValue(want), OneIface(have), AskedIface(want),
         L \intersect Iface = {}, "node" \notin L, have["node"] \subseteq {Present},
         NEW ds, \A l \in Leaf : DroppedBy(ds, n, l) = DroppedBy(IfaceDrop(n, have, want), n, l),
         NEW R, R = After(ds, ObjectEdits(n, L, have, want), have, n)
  PROVE  ObjectReached(R, L, have, want)
<1> DEFINE E == ObjectEdits(n, L, have, want)
           A == LeavesDiff(n, L, have, want)
           B == IfaceSet(n, have, want)
<1>1. \A l \in Leaf : have[l] \subseteq Value /\ want[l] \subseteq Value
  BY DEF Content
<1>2. \A l \in Leaf :
        R[l] = IF l = "node" /\ Creates(E, n) THEN {Present}
               ELSE IF l \notin Multi /\ SetBy(E, n, l) # {} THEN SetBy(E, n, l)
               ELSE ((have[l] \ DroppedBy(ds, n, l)) \union SetBy(E, n, l)) \ CutBy(E, n, l)
  BY DEF After
<1>3. \A l \in Leaf :
        /\ l # "node" => SetBy(E, n, l) = SetBy(A, n, l) \union SetBy(B, n, l)
        /\ CutBy(E, n, l) = CutBy(A, n, l)
        /\ have["node"] = {} => Creates(E, n)
  BY ObjectBy
<1>4. \A l \in Leaf :
        SetBy(A, n, l) = Gains(L, have, want, l) /\ CutBy(A, n, l) = Loses(L, have, want, l)
  <2> TAKE l \in Leaf
  <2>1. SetBy(A, n, l) = Gains(L, have, want, l)
    BY LeavesSetBy
  <2>2. CutBy(A, n, l) = Loses(L, have, want, l)
    BY LeavesCutBy
  <2> QED
    BY <2>1, <2>2
<1>5. \A l \in Leaf :
        SetBy(B, n, l) = IF l \in {"name", "group"} /\ IfaceGoes(have, want) THEN want[l] ELSE {}
  BY IfaceSetBy DEF IfaceGoes
<1>6. \A l \in Leaf :
        DroppedBy(ds, n, l) =
          IF IfaceGoes(have, want) /\ IfaceOf(have).vals # {} /\ l \in Iface THEN Value ELSE {}
  BY IfaceDropped
<1>7. /\ "name" \in Leaf \ Multi /\ "group" \in Leaf \ Multi /\ "bare" \in Leaf \ Multi
      /\ "node" \in Leaf \ Multi /\ Iface = {"name", "group", "bare"} /\ "node" \notin Iface
  BY IfaceLeaves DEF Iface
<1> HIDE DEF E, A, B
<1>8. R["node"] = {Present}
  <2>1. CASE Creates(E, n)
    BY <1>2, <1>7, <2>1
  <2>2. CASE ~Creates(E, n)
    <3>1. have["node"] = {Present}
      BY <1>3, <1>7, <2>2
    <3>2. CutBy(E, n, "node") = {} /\ DroppedBy(ds, n, "node") = {}
      BY <1>3, <1>4, <1>6, <1>7 DEF Loses
    <3>3. SetBy(E, n, "node") = {}
      BY <2>2 DEF Creates, SetBy
    <3> QED
      BY <1>2, <1>7, <2>2, <3>1, <3>2, <3>3
  <2> QED
    BY <2>1, <2>2
<1>9. ASSUME NEW l \in L PROVE R[l] = want[l]
  <2>1. l \in Leaf /\ l # "node" /\ l \notin Iface
    OBVIOUS
  <2>2. DroppedBy(ds, n, l) = {} /\ SetBy(B, n, l) = {}
    BY <1>5, <1>6, <1>7, <2>1
  <2>3. R[l] = IF l \notin Multi /\ SetBy(A, n, l) # {} THEN SetBy(A, n, l)
               ELSE (have[l] \union SetBy(A, n, l)) \ CutBy(A, n, l)
    BY <1>2, <1>3, <2>1, <2>2
  <2>4. CASE l \in Multi
    BY <1>4, <2>1, <2>3, <2>4 DEF Gains, Loses
  <2>5. CASE l \notin Multi
    BY <1>1, <1>4, <2>1, <2>3, <2>5 DEF Gains, Loses
  <2> QED
    BY <2>4, <2>5
<1>10. ASSUME NEW l \in Leaf, l \notin L, l # "node"
       PROVE  R[l] = IF SetBy(B, n, l) # {} /\ l \notin Multi THEN SetBy(B, n, l)
                     ELSE (have[l] \ DroppedBy(ds, n, l)) \union SetBy(B, n, l)
  BY <1>2, <1>3, <1>4, <1>10 DEF Gains, Loses
<1>11. ASSUME NEW l \in Leaf \ (L \union Iface \union {"node"}) PROVE R[l] = have[l]
  BY <1>5, <1>6, <1>7, <1>10
<1>12. ASSUME ~IfaceGoes(have, want), NEW l \in Iface PROVE R[l] = have[l]
  BY <1>5, <1>6, <1>7, <1>10, <1>12, SMTT(30)
<1>13. ASSUME IfaceGoes(have, want)
       PROVE  R["name"] = want["name"] /\ R["group"] = want["group"] /\ R["bare"] = {}
  <2>1. \A l \in Iface : have[l] \ DroppedBy(ds, n, l) = {}
    <3>1. CASE IfaceOf(have).vals # {}
      BY <1>1, <1>6, <1>7, <1>13, <3>1
    <3>2. CASE IfaceOf(have).vals = {}
      <4>1. \A l \in Iface : have[l] = {}
        BY <1>7, <3>2 DEF IfaceOf
      <4> QED
        BY <4>1
    <3> QED
      BY <3>1, <3>2
  <2>2. \A l \in Iface : l \notin L /\ l # "node" /\ l \in Leaf
    BY <1>7
  <2>3. \A l \in Iface : R[l] = SetBy(B, n, l)
    BY <1>10, <2>1, <2>2
  <2> QED
    BY <1>5, <1>7, <1>13, <2>3
<1>14. \A l \in L : R[l] = want[l]
  BY <1>9
<1>15. \A l \in Leaf \ (L \union Iface \union {"node"}) : R[l] = have[l]
  BY <1>11
<1>16. ~IfaceGoes(have, want) => \A l \in Iface : R[l] = have[l]
  BY <1>12
<1> QED
  BY <1>8, <1>13, <1>14, <1>15, <1>16 DEF ObjectReached

\* What the firewall's options, a state, the system or ntp are after the commands.
LeavesReached(R, L, have, want) ==
  /\ \A l \in L : R[l] = want[l]
  /\ \A l \in Leaf \ (L \union {"node"}) : R[l] = have[l]
  /\ R["node"] = IF \E l \in L : want[l] # {} THEN {Present} ELSE have["node"]

LEMMA LeavesAfter ==
  ASSUME NEW n \in Node, NEW L \in SUBSET Leaf, NEW have \in Content, NEW want \in Content,
         OneValue(have), OneValue(want), "node" \notin L, have["node"] \subseteq {Present},
         have["node"] = {} => have = Absent,
         NEW R, R = After({}, LeavesDiff(n, L, have, want), have, n)
  PROVE  LeavesReached(R, L, have, want)
<1> DEFINE A == LeavesDiff(n, L, have, want)
<1>1. \A l \in Leaf : have[l] \subseteq Value /\ want[l] \subseteq Value
  BY DEF Content
<1>2. \A l \in Leaf :
        R[l] = IF l = "node" /\ Creates(A, n) THEN {Present}
               ELSE IF l \notin Multi /\ SetBy(A, n, l) # {} THEN SetBy(A, n, l)
               ELSE (have[l] \union SetBy(A, n, l)) \ CutBy(A, n, l)
  BY DEF After, DroppedBy
<1>3. \A l \in Leaf :
        SetBy(A, n, l) = Gains(L, have, want, l) /\ CutBy(A, n, l) = Loses(L, have, want, l)
  <2> TAKE l \in Leaf
  <2>1. SetBy(A, n, l) = Gains(L, have, want, l)
    BY LeavesSetBy
  <2>2. CutBy(A, n, l) = Loses(L, have, want, l)
    BY LeavesCutBy
  <2> QED
    BY <2>1, <2>2
<1>4. \A c \in A : c.node = n /\ \E l \in L : c.leaves = {l} /\ (c.op = "set" => want[l] # {})
  <2> TAKE c \in A
  <2>1. PICK l \in L :
           \/ l \notin Multi /\ want[l] # have[l] /\ \E v \in want[l] : c = Set(n, l, v)
           \/ l \notin Multi /\ want[l] # have[l] /\ want[l] = {} /\ c = Delete(n, {l}, Value)
           \/ l \in Multi /\ \E v \in want[l] \ have[l] : c = Set(n, l, v)
           \/ l \in Multi /\ \E v \in have[l] \ want[l] : c = Delete(n, {l}, {v})
    BY LeavesCommand DEF Set, Delete
  <2> QED
    BY <2>1 DEF Set, Delete
<1>5. \A l \in L : Gains(L, have, want, l) # {} => Creates(A, n)
  BY <1>3 DEF SetBy, Creates
<1>6. "node" \in Leaf /\ "node" \notin Multi
  BY IfaceLeaves
<1> HIDE DEF A
<1>7. ASSUME NEW l \in L PROVE R[l] = want[l]
  <2>1. l \in Leaf /\ l # "node"
    OBVIOUS
  <2>2. R[l] = IF l \notin Multi /\ Gains(L, have, want, l) # {} THEN Gains(L, have, want, l)
               ELSE (have[l] \union Gains(L, have, want, l)) \ Loses(L, have, want, l)
    BY <1>2, <1>3, <2>1
  <2>3. CASE l \in Multi
    BY <2>1, <2>2, <2>3 DEF Gains, Loses
  <2>4. CASE l \notin Multi
    BY <1>1, <2>1, <2>2, <2>4 DEF Gains, Loses
  <2> QED
    BY <2>3, <2>4
<1>8. ASSUME NEW l \in Leaf \ (L \union {"node"}) PROVE R[l] = have[l]
  BY <1>2, <1>3 DEF Gains, Loses
<1>9. R["node"] = IF \E l \in L : want[l] # {} THEN {Present} ELSE have["node"]
  <2>1. SetBy(A, n, "node") = {} /\ CutBy(A, n, "node") = {}
    BY <1>3, <1>6 DEF Gains, Loses
  <2>2. R["node"] = IF Creates(A, n) THEN {Present} ELSE have["node"]
    BY <1>2, <1>6, <2>1
  <2>3. Creates(A, n) => \E l \in L : want[l] # {}
    BY <1>4 DEF Creates
  <2>4. ASSUME NEW l \in L, want[l] # {}, have["node"] = {} PROVE Creates(A, n)
    <3>1. have[l] = {}
      BY <2>4 DEF Absent
    <3>2. Gains(L, have, want, l) # {}
      BY <2>4, <3>1 DEF Gains
    <3> QED
      BY <1>5, <3>2
  <2> QED
    BY <2>2, <2>3, <2>4
<1> QED
  BY <1>7, <1>8, <1>9 DEF LeavesReached

\* Leaves that are as they should be need no command.
LEMMA LeavesSame ==
  ASSUME NEW n, NEW L, NEW have, NEW want, \A l \in L : want[l] = have[l]
  PROVE  LeavesDiff(n, L, have, want) = {}
<1> SUFFICES ASSUME NEW c \in LeavesDiff(n, L, have, want) PROVE FALSE
  OBVIOUS
<1> QED
  BY LeavesCommand DEF Set, Delete

-----------------------------------------------------------------------------
(***************************************************************************)
(* The forms                                                               *)
(***************************************************************************)

Object == {"nic", "vif"} \union Nat44

\* What a handler makes of a request: a form per node.
FormOK(f) ==
  /\ f \in Form
  /\ f.from[1] = f.node[1]
  /\ OneValue(f.want)
  /\ f.want["node"] \subseteq {Present}
  /\ \A l \in Leaf \ f.asks : f.want[l] = {}
  /\ f.node[1] \in Object => /\ f.asks = Managed[f.node[1]] \union {"node"}
                             /\ f.want["node"] = {Present}
                             /\ f.want["name"] = {} \/ f.want["group"] = {}
  /\ f.node[1] \notin Object => ~Moved(f)
  /\ f.node[1] = "options" => f.asks = Managed["options"]
  /\ f.node[1] = "state" => /\ f.asks = Managed["state"] \union {"node"}
                            /\ f.want["node"] = {} <=> f.want["action"] = {}
  /\ f.node[1] = "system" => f.asks \subseteq Managed["system"]
  /\ f.node[1] = "ntp" => f.asks \subseteq Managed["ntp"] \union {"node"}

\* The form says that the node shall not be there.
Off(f) == "node" \in f.asks /\ f.want["node"] = {}

\* The leaves a form compares.
Compared(f) ==
  IF f.node[1] = "system" THEN {l \in f.asks : f.want[l] # {} \/ l \notin SetOnly}
  ELSE IF f.node[1] = "ntp" THEN f.asks \ {"node"}
  ELSE Managed[f.node[1]] \ Iface

\* Kinds are known, and only those of a NAT rule have an interface.
LEMMA NodeKind ==
  ASSUME page \in Pages, NEW n \in Node
  PROVE  n[1] \in Kinds /\ Managed[n[1]] \subseteq Leaf
<1>1. Node \subseteq Kinds \X {m[2] : m \in Node}
  BY PageAssumption DEF Node
<1>2. n[1] \in Kinds
  BY <1>1
<1> QED
  BY <1>2, LeafAssumption

LEMMA ComparedLeaves ==
  ASSUME page \in Pages, NEW f, FormOK(f)
  PROVE  /\ Compared(f) \subseteq Leaf /\ "node" \notin Compared(f)
         /\ Compared(f) \intersect Iface = {}
         /\ f.node[1] \in Kinds /\ f.node \in Node /\ f.want \in Content
<1>1. f.node \in Node /\ f.want \in Content /\ f.asks \subseteq Leaf
  BY DEF FormOK, Form
<1>2. f.node[1] \in Kinds /\ Managed[f.node[1]] \subseteq Leaf
  BY <1>1, NodeKind
<1>3. "node" \notin Managed[f.node[1]]
  BY <1>2, KindAssumption
<1>4. /\ "system" \in Kinds \ Nat44 /\ "ntp" \in Kinds \ Nat44
      /\ "node" \notin Managed["system"] /\ "node" \notin Iface
  BY KindAssumption DEF Kinds, Nat44, Iface
<1>5. Managed["system"] \intersect Iface = {} /\ Managed["ntp"] \intersect Iface = {}
  BY <1>4, KindAssumption
<1>6. CASE f.node[1] = "system"
  BY <1>1, <1>2, <1>4, <1>5, <1>6 DEF Compared, FormOK
<1>7. CASE f.node[1] = "ntp"
  BY <1>1, <1>2, <1>4, <1>5, <1>7 DEF Compared, FormOK
<1>8. CASE f.node[1] \notin {"system", "ntp"}
  BY <1>1, <1>2, <1>3, <1>8 DEF Compared
<1> QED
  BY <1>6, <1>7, <1>8

\* A form of the firewall, the system or ntp that does not switch its node off.
LEMMA OnDiff ==
  ASSUME page \in Pages, NEW f, FormOK(f), f.node[1] \notin Object, ~Off(f), NEW config
  PROVE  NodeDiff(f, config) =
           [drops |-> {}, edits |-> LeavesDiff(f.node, Compared(f), config[f.node], f.want)]
<1>1. f.node[1] \in {"options", "state", "system", "ntp"}
  BY ComparedLeaves DEF Kinds, Object, Nat44
<1>2. Managed["options"] \intersect Iface = {} /\ Managed["state"] \intersect Iface = {}
  BY KindAssumption DEF Kinds, Nat44
<1>3. CASE f.node[1] = "options"
  <2>1. Compared(f) = Managed["options"]
    BY <1>2, <1>3 DEF Compared
  <2> QED
    BY <1>3, <2>1 DEF NodeDiff, OptionsDiff
<1>4. CASE f.node[1] = "state"
  <2>1. Compared(f) = Managed["state"] /\ f.want["action"] # {}
    BY <1>2, <1>4 DEF Compared, FormOK, Off
  <2> QED
    BY <1>4, <2>1 DEF NodeDiff, StateDiff
<1>5. CASE f.node[1] = "system"
  BY <1>5 DEF NodeDiff, SystemDiff, Compared
<1>6. CASE f.node[1] = "ntp"
  BY <1>6 DEF NodeDiff, NtpDiff, Compared, Off
<1> QED
  BY <1>1, <1>3, <1>4, <1>5, <1>6

\* What such a form asks for.
LEMMA OnWanted ==
  ASSUME page \in Pages, NEW f, FormOK(f), f.node[1] \notin Object, ~Off(f),
         NEW content \in Content
  PROVE  /\ \A l \in Compared(f) : Wanted(f, content)[l] = f.want[l]
         /\ \A l \in Leaf \ (Compared(f) \union {"node"}) : Wanted(f, content)[l] = content[l]
         /\ Wanted(f, content)["node"] =
              IF \E l \in f.asks : f.want[l] # {} THEN {Present} ELSE content["node"]
<1>1. f.node[1] \in {"options", "state", "system", "ntp"} /\ f.asks \subseteq Leaf
  BY ComparedLeaves DEF Kinds, Object, Nat44, FormOK, Form
<1>2. \A k \in {"options", "state", "system", "ntp"} :
        Managed[k] \intersect Iface = {} /\ "node" \notin Managed[k]
  BY KindAssumption DEF Kinds, Nat44
<1>3. \A k \in {"options", "state", "ntp"} : Managed[k] \intersect SetOnly = {}
  BY KindAssumption DEF Kinds
<1>4. Wanted(f, content) =
        [l \in Leaf |->
          IF l = "node" /\ \E k \in f.asks : f.want[k] # {} THEN {Present}
          ELSE IF l = "bare" /\ Iface \intersect f.asks # {} THEN {}
          ELSE IF Effective(f, l) THEN f.want[l] ELSE content[l]]
  BY DEF Wanted, Off
<1>5. Iface \intersect f.asks = {}
  <2>1. f.asks \subseteq Managed[f.node[1]] \union {"node"}
    BY <1>1 DEF FormOK
  <2> QED
    BY <1>1, <1>2, <2>1 DEF Iface
<1>6. ASSUME NEW l \in Leaf, l # "node" PROVE l \in Compared(f) <=> Effective(f, l)
  <2>1. CASE f.node[1] = "system"
    BY <1>6, <2>1 DEF Compared, Effective
  <2>2. CASE f.node[1] = "ntp"
    BY <1>3, <1>6, <2>2 DEF Compared, Effective, FormOK
  <2>3. CASE f.node[1] = "options"
    BY <1>2, <1>3, <1>6, <2>3 DEF Compared, Effective, FormOK
  <2>4. CASE f.node[1] = "state"
    BY <1>2, <1>3, <1>6, <2>4 DEF Compared, Effective, FormOK
  <2> QED
    BY <1>1, <2>1, <2>2, <2>3, <2>4
<1>7. ASSUME NEW l \in Leaf, l # "node"
      PROVE  Wanted(f, content)[l] = IF l \in Compared(f) THEN f.want[l] ELSE content[l]
  BY <1>4, <1>5, <1>6, <1>7
<1>8. Wanted(f, content)["node"] =
        IF \E l \in f.asks : f.want[l] # {} THEN {Present} ELSE content["node"]
  <2>1. CASE \E l \in f.asks : f.want[l] # {}
    BY <1>4, <2>1, IfaceLeaves
  <2>2. CASE ~\E l \in f.asks : f.want[l] # {}
    <3>1. "node" \notin f.asks
      BY <2>2 DEF Off
    <3> QED
      BY <1>4, <2>2, <3>1, IfaceLeaves DEF Effective
  <2> QED
    BY <2>1, <2>2
<1> QED
  BY <1>7, <1>8, ComparedLeaves

\* A request that keeps to the assumptions of `plain`.
FormPlain(f) ==
  /\ Moved(f) => live[f.from] # Absent /\ live[f.node] = Absent
  /\ f.node[1] = "ntp" /\ "node" \in f.asks /\ f.want["node"] # {} =>
       live[f.node]["node"] # {} \/ ("server" \in f.asks /\ f.want["server"] # {})

\* What a node is after the commands of a form alone.
FormAfter(f, n) == After(NodeDiff(f, live).drops, NodeDiff(f, live).edits, live[n], n)

\* The commands of a form are well formed and keep to its nodes,
FormShape(f) ==
  LET D == NodeDiff(f, live)
  IN /\ D.drops \subseteq Command /\ D.edits \subseteq Command
     /\ \A c \in D.drops : c.op = "delete" /\ c.node \in {f.node, f.from}
     /\ \A c \in D.edits : c.node = f.node
     /\ EditsOK(D.edits)
\* leave a possible content, and nothing of the node that was left behind,
FormLeaves(f) ==
  /\ Sound(f.node[1], FormAfter(f, f.node))
  /\ Moved(f) => FormAfter(f, f.from) = Absent
\* give what the form asks for, after which there is nothing to do,
FormReached(f) ==
  /\ Valid(f.node[1], FormAfter(f, f.node))
  /\ Shown(f.node, FormAfter(f, f.node))
       = Shown(f.node, Wanted(f, IF Moved(f) THEN Absent ELSE live[f.node]))
  /\ ~Moved(f) => \A config : config[f.node] = FormAfter(f, f.node) =>
                    NodeDiff(f, config) = [drops |-> {}, edits |-> {}]
\* and none of them is without effect.
FormMatters(f) ==
  LET D == NodeDiff(f, live)
  IN /\ \A c, d \in D.drops : c.node = d.node => c = d
     /\ \A c \in D.drops : \E l \in c.leaves : live[c.node][l] \intersect c.vals # {}
     /\ EditsDo(D.edits, live[f.node])
     /\ \A c \in D.edits :
          /\ c.op = "set" /\ "node" \in c.leaves => \A d \in D.edits : d.op = "set" => d = c
          /\ c.op = "delete" => \A d \in D.drops : d.node = f.node =>
                                  c.leaves \intersect d.leaves = {}

LiveInv == \A n \in Node : Valid(n[1], live[n]) /\ Sound(n[1], live[n])

\* A content without its node is empty.
LEMMA LiveFacts ==
  ASSUME TypeInv, LiveInv, NEW n \in Node
  PROVE  /\ live[n] \in Content
         /\ live[n]["node"] \subseteq {Present}
         /\ live[n]["node"] = {} => live[n] = Absent
         /\ OneValue(live[n]) /\ OneIface(live[n])
         /\ n[1] \notin Nat44 => \A l \in Iface : live[n][l] = {}
         /\ n[1] \in {"options", "system"} => live[n]["node"] # {}
BY DEF TypeInv, LiveInv, Config, Valid, Sound, OneIface

LEMMA OnForm ==
  ASSUME TypeInv, LiveInv, NEW f, FormOK(f), f.node[1] \notin Object, ~Off(f)
  PROVE  FormShape(f) /\ FormLeaves(f) /\ (FormPlain(f) => FormReached(f) /\ FormMatters(f))
<1> DEFINE n == f.node
           L == Compared(f)
           have == live[n]
           R == FormAfter(f, n)
           k == f.node[1]
<1>1. /\ L \subseteq Leaf /\ "node" \notin L /\ L \intersect Iface = {} /\ n \in Node
      /\ f.want \in Content /\ OneValue(f.want) /\ page \in Pages /\ ~Moved(f)
  BY ComparedLeaves DEF TypeInv, FormOK
<1>2. /\ have \in Content /\ have["node"] \subseteq {Present}
      /\ have["node"] = {} => have = Absent
      /\ OneValue(have) /\ \A l \in Iface : have[l] = {}
      /\ k \in {"options", "system"} => have["node"] # {}
  BY <1>1, LiveFacts DEF Object
<1>3. \A config : NodeDiff(f, config) =
           [drops |-> {}, edits |-> LeavesDiff(n, L, config[n], f.want)]
  BY <1>1, OnDiff
<1>4. /\ NodeDiff(f, live).drops = {}
      /\ NodeDiff(f, live).edits = LeavesDiff(n, L, have, f.want)
  BY <1>3
<1>5. R = After({}, LeavesDiff(n, L, have, f.want), have, n)
  BY <1>4 DEF FormAfter
<1> HIDE DEF R
<1>6. /\ \A l \in L : R[l] = f.want[l]
      /\ \A l \in Leaf \ (L \union {"node"}) : R[l] = have[l]
      /\ R["node"] = IF \E l \in L : f.want[l] # {} THEN {Present} ELSE have["node"]
  <2> HIDE DEF L, have, n
  <2>1. LeavesReached(R, L, have, f.want)
    BY <1>1, <1>2, <1>5, LeavesAfter
  <2> QED
    BY <2>1 DEF LeavesReached
<1>7. R = [l \in Leaf |-> R[l]]
  BY <1>5 DEF After
<1>8. FormShape(f)
  BY <1>1, <1>2, <1>4, LeavesShape DEF FormShape
<1>9. FormLeaves(f)
  <2>1. \A l \in Iface : R[l] = {}
    BY <1>1, <1>2, <1>6, IfaceLeaves DEF Iface
  <2>2. R["node"] \subseteq {Present}
    BY <1>2, <1>6
  <2>3. OneValue(R)
    <3>1. \A l \in Leaf : R[l] = f.want[l] \/ R[l] = have[l] \/ R[l] \subseteq {Present}
      BY <1>6, <2>2
    <3> QED
      BY <1>1, <1>2, <3>1, IfaceLeaves DEF OneValue
  <2> QED
    BY <1>1, <2>1, <2>2, <2>3 DEF FormLeaves, Sound, R
<1>10. ASSUME FormPlain(f) PROVE FormReached(f)
  <2>1. Valid(k, R)
    <3>1. R["node"] = {} => R = Absent
      <4> SUFFICES ASSUME R["node"] = {} PROVE R = Absent
        OBVIOUS
      <4>1. have = Absent /\ \A l \in L : f.want[l] = {}
        BY <1>2, <1>6
      <4>2. \A l \in Leaf : R[l] = {}
        BY <1>6, <4>1 DEF Absent
      <4> QED
        BY <1>7, <4>2 DEF Absent
    <3>2. \A l \in Iface : R[l] = {}
      BY <1>1, <1>2, <1>6, IfaceLeaves DEF Iface
    <3>3. k \in {"options", "system"} => R["node"] # {}
      BY <1>2, <1>6
    <3> QED
      BY <3>1, <3>2, <3>3 DEF Valid
  <2>2. R = Wanted(f, have)
    <3>1. \A l \in Leaf : l # "node" => R[l] = Wanted(f, have)[l]
      BY <1>1, <1>2, <1>6, OnWanted
    <3>2. R["node"] = Wanted(f, have)["node"]
      <4>1. Wanted(f, have)["node"] =
              IF \E l \in f.asks : f.want[l] # {} THEN {Present} ELSE have["node"]
        <5> HIDE DEF have
        <5> QED
          BY <1>1, <1>2, OnWanted
      <4>2. \A l \in L : l \in f.asks
        <5>1. k \in Kinds
          BY <1>1, ComparedLeaves
        <5> QED
          BY <5>1 DEF Compared, FormOK, Kinds, Object, Nat44
      <4>3. \A l \in f.asks : f.want[l] # {} /\ l # "node" => l \in L
        <5>1. k \in {"options", "state", "system", "ntp"}
          BY <1>1, ComparedLeaves DEF Kinds, Object, Nat44
        <5>2. \A j \in {"options", "state"} : Managed[j] \intersect Iface = {}
          BY KindAssumption DEF Kinds, Nat44
        <5> QED
          BY <5>1, <5>2 DEF Compared, FormOK
      <4>4. CASE "node" \in f.asks
        <5>1. f.want["node"] # {} /\ (k = "state" \/ k = "ntp")
          <6>1. k \in {"options", "state", "system", "ntp"}
            BY <1>1, ComparedLeaves DEF Kinds, Object, Nat44
          <6>2. "node" \notin Managed["options"] /\ "node" \notin Managed["system"]
            BY KindAssumption DEF Kinds
          <6> QED
            BY <4>4, <6>1, <6>2 DEF Off, FormOK
        <5>2. CASE k = "state"
          <6>1. f.want["action"] # {} /\ "action" \in f.asks
            BY <5>1, <5>2, KindAssumption DEF FormOK
          <6> QED
            BY <1>6, <4>1, <4>3, <6>1
        <5>3. CASE k = "ntp"
          <6>1. have["node"] # {} \/ ("server" \in f.asks /\ f.want["server"] # {})
            BY <1>10, <4>4, <5>1, <5>3 DEF FormPlain
          <6> QED
            <7>1. R["node"] = {Present}
              BY <1>2, <1>6, <4>3, <6>1
            <7> QED
              BY <4>1, <4>4, <5>1, <7>1
        <5> QED
          BY <5>1, <5>2, <5>3
      <4>5. CASE "node" \notin f.asks
        BY <1>6, <4>1, <4>2, <4>3, <4>5
      <4> QED
        BY <4>4, <4>5
    <3>3. Wanted(f, have) = [l \in Leaf |-> Wanted(f, have)[l]]
      BY DEF Wanted, Absent
    <3> QED
      BY <1>7, <3>1, <3>2, <3>3
  <2>3. ASSUME NEW config, config[n] = R PROVE NodeDiff(f, config) = [drops |-> {}, edits |-> {}]
    <3>1. LeavesDiff(n, L, config[n], f.want) = {}
      BY <1>6, <2>3, LeavesSame
    <3> QED
      BY <1>3, <3>1
  <2> QED
    BY <1>1, <2>1, <2>2, <2>3 DEF FormReached, R
<1>11. FormMatters(f)
  <2>1. EditsDo(LeavesDiff(n, L, have, f.want), have)
    BY <1>1, <1>2, LeavesDo
  <2>2. \A c \in LeavesDiff(n, L, have, f.want) : "node" \notin c.leaves
    BY <1>1, <1>2, LeavesShape
  <2> QED
    BY <1>4, <2>1, <2>2 DEF FormMatters
<1> QED
  BY <1>8, <1>9, <1>10, <1>11

\* Removing a node takes everything that was there.
LEMMA DeleteNodeFields ==
  ASSUME NEW n
  PROVE  /\ DeleteNode(n).op = "delete" /\ DeleteNode(n).node = n
         /\ DeleteNode(n).leaves = Leaf /\ DeleteNode(n).vals = Value
         /\ n \in Node => DeleteNode(n) \in Command
BY DEF DeleteNode, Delete, Command

LEMMA NodeGone ==
  ASSUME NEW n, NEW content \in Content, NEW ds, NEW es, DeleteNode(n) \in ds,
         \A c \in es : c.node # n
  PROVE  After(ds, es, content, n) = Absent
<1>1. \A l \in Leaf : DroppedBy(ds, n, l) = Value
  BY DeleteNodeFields DEF DroppedBy
<1>2. \A l \in Leaf : SetBy(es, n, l) = {}
  BY DEF SetBy
<1>3. ~Creates(es, n)
  BY DEF Creates
<1>4. \A l \in Leaf : content[l] \subseteq Value
  BY DEF Content
<1>5. \A l \in Leaf : After(ds, es, content, n)[l] = {}
  BY <1>1, <1>2, <1>3, <1>4 DEF After
<1>6. After(ds, es, content, n) = [l \in Leaf |-> After(ds, es, content, n)[l]]
  BY DEF After
<1> HIDE DEF After
<1> QED
  BY <1>5, <1>6 DEF Absent

LEMMA AbsentFacts ==
  /\ Absent \in Content
  /\ \A l \in Leaf : Absent[l] = {}
  /\ \A k : Sound(k, Absent)
  /\ \A k : k \notin {"options", "system"} => Valid(k, Absent)
  /\ OneValue(Absent) /\ OneIface(Absent)
<1>1. Absent \in Content /\ \A l \in Leaf : Absent[l] = {}
  BY DEF Absent, Content
<1>2. OneValue(Absent) /\ OneIface(Absent)
  BY <1>1, IfaceLeaves DEF OneValue, OneIface
<1>3. \A k : Sound(k, Absent)
  BY <1>1, <1>2, IfaceLeaves DEF Sound
<1>4. \A k : k \notin {"options", "system"} => Valid(k, Absent)
  BY <1>1, IfaceLeaves DEF Valid
<1> QED
  BY <1>1, <1>2, <1>3, <1>4

\* A form that switches a state or ntp off.
OffNeeded(f, content) ==
  IF f.node[1] = "state" THEN content["action"] # {} ELSE content["node"] # {}

LEMMA OffDiff ==
  ASSUME page \in Pages, NEW f, FormOK(f), f.node[1] \notin Object, Off(f)
  PROVE  /\ f.node[1] \in {"state", "ntp"}
         /\ \A config : NodeDiff(f, config) =
              [drops |-> IF OffNeeded(f, config[f.node]) THEN {DeleteNode(f.node)} ELSE {},
               edits |-> {}]
<1>1. f.node[1] \in {"options", "state", "system", "ntp"}
  BY ComparedLeaves DEF Kinds, Object, Nat44
<1>2. "node" \notin Managed["options"] /\ "node" \notin Managed["system"]
  BY KindAssumption DEF Kinds
<1>3. f.node[1] \in {"state", "ntp"}
  BY <1>1, <1>2 DEF FormOK, Off
<1>4. ASSUME NEW config
      PROVE  NodeDiff(f, config) =
              [drops |-> IF OffNeeded(f, config[f.node]) THEN {DeleteNode(f.node)} ELSE {},
               edits |-> {}]
  <2>1. CASE f.node[1] = "state"
    <3>1. f.want["action"] = {}
      BY <2>1 DEF FormOK, Off
    <3> QED
      BY <2>1, <3>1 DEF NodeDiff, StateDiff, OffNeeded
  <2>2. CASE f.node[1] = "ntp"
    BY <2>2 DEF NodeDiff, NtpDiff, OffNeeded, Off
  <2> QED
    BY <1>3, <2>1, <2>2
<1> QED
  BY <1>3, <1>4

LEMMA OffForm ==
  ASSUME TypeInv, LiveInv, NEW f, FormOK(f), f.node[1] \notin Object, Off(f)
  PROVE  FormShape(f) /\ FormLeaves(f) /\ (FormPlain(f) => FormReached(f) /\ FormMatters(f))
<1> DEFINE n == f.node
           have == live[n]
           R == FormAfter(f, n)
           k == f.node[1]
           D == NodeDiff(f, live)
<1>1. n \in Node /\ page \in Pages /\ ~Moved(f)
  BY DEF TypeInv, FormOK, Form
<1>2. /\ have \in Content /\ have["node"] \subseteq {Present}
      /\ have["node"] = {} => have = Absent
  BY <1>1, LiveFacts
<1>3. /\ k \in {"state", "ntp"}
      /\ \A config : NodeDiff(f, config) =
           [drops |-> IF OffNeeded(f, config[n]) THEN {DeleteNode(n)} ELSE {}, edits |-> {}]
  BY <1>1, OffDiff
<1>4. D.drops = (IF OffNeeded(f, have) THEN {DeleteNode(n)} ELSE {}) /\ D.edits = {}
  <2>1. D = [drops |-> IF OffNeeded(f, have) THEN {DeleteNode(n)} ELSE {}, edits |-> {}]
    BY <1>3
  <2> HIDE DEF D, have
  <2> QED
    BY <2>1
<1>5. R = IF OffNeeded(f, have) THEN Absent ELSE have
  <2>1. R = After(D.drops, D.edits, have, n)
    BY DEF FormAfter
  <2> HIDE DEF D, have, R
  <2>2. CASE OffNeeded(f, have)
    BY <1>2, <1>4, <2>1, <2>2, NodeGone
  <2>3. CASE ~OffNeeded(f, have)
    BY <1>2, <1>4, <2>1, <2>3, AfterNothing
  <2> QED
    BY <2>2, <2>3
<1>6. ~OffNeeded(f, R)
  BY <1>5, AbsentFacts, LeafAssumption DEF OffNeeded
<1>7. "action" \in Leaf /\ "node" \in Leaf
  BY LeafAssumption
<1>8. Sound(k, R) /\ Valid(k, R)
  <2>1. Sound(k, have) /\ Valid(k, have)
    BY <1>1 DEF LiveInv
  <2> QED
    BY <1>3, <1>5, <2>1, AbsentFacts
<1> HIDE DEF R
<1>9. FormShape(f)
  BY <1>1, <1>4, DeleteNodeFields DEF FormShape, EditsOK
<1>10. FormLeaves(f)
  BY <1>1, <1>8 DEF FormLeaves, R
<1>11. Wanted(f, have) = Absent
  BY DEF Wanted, Off
<1>12. Shown(n, R) = Shown(n, Absent)
  <2>1. CASE k = "state"
    <3>1. R["action"] = {} /\ Absent["action"] = {}
      BY <1>6, <1>7, <2>1, AbsentFacts DEF OffNeeded
    <3> QED
      BY <2>1, <3>1 DEF Shown
  <2>2. CASE k = "ntp"
    <3>1. R = Absent
      BY <1>2, <1>5, <2>2 DEF OffNeeded
    <3> QED
      BY <3>1
  <2> QED
    BY <1>3, <2>1, <2>2
<1>13. ASSUME NEW config, config[n] = R
       PROVE  NodeDiff(f, config) = [drops |-> {}, edits |-> {}]
  BY <1>3, <1>6, <1>13
<1>14. FormReached(f)
  BY <1>1, <1>8, <1>11, <1>12, <1>13 DEF FormReached, R
<1>15. OffNeeded(f, have) => \E l \in Leaf : have[l] # {}
  BY <1>7 DEF OffNeeded
<1>16. FormMatters(f)
  <2>1. \A l \in Leaf : have[l] \intersect Value = have[l]
    BY <1>2 DEF Content
  <2>2. ASSUME NEW c \in D.drops
        PROVE  c.node = n /\ \E l \in c.leaves : live[c.node][l] \intersect c.vals # {}
    <3>1. c = DeleteNode(n) /\ OffNeeded(f, have)
      BY <1>4
    <3> QED
      BY <1>15, <2>1, <3>1, DeleteNodeFields
  <2>3. \A c, d \in D.drops : c = d
    BY <1>4
  <2> QED
    BY <1>4, <2>2, <2>3 DEF FormMatters, EditsDo
<1> QED
  BY <1>9, <1>10, <1>14, <1>16

\* A content stays possible, whatever is set and deleted.
LEMMA SoundAfter ==
  ASSUME NEW n, NEW k, NEW ds, NEW es, NEW content \in Content, Sound(k, content), EditsOK(es),
         k \notin Nat44 => \A c \in es : c.leaves \intersect Iface = {},
         NEW R, R = After(ds, es, content, n)
  PROVE  Sound(k, R)
<1>1. \A l \in Leaf :
        R[l] = IF l = "node" /\ Creates(es, n) THEN {Present}
               ELSE IF l \notin Multi /\ SetBy(es, n, l) # {} THEN SetBy(es, n, l)
               ELSE ((content[l] \ DroppedBy(ds, n, l)) \union SetBy(es, n, l)) \ CutBy(es, n, l)
  BY DEF After
<1>2. \A l \in Leaf : R[l] \subseteq SetBy(es, n, l) \/ R[l] \subseteq content[l] \union SetBy(es, n, l)
                      \/ R[l] = {Present}
  BY <1>1
<1>3. R["node"] \subseteq {Present}
  <2>1. SetBy(es, n, "node") \subseteq {Present}
    BY DEF SetBy, EditsOK
  <2> QED
    BY <1>2, <2>1, IfaceLeaves DEF Sound
<1>4. ASSUME k \notin Nat44, NEW l \in Iface PROVE R[l] = {}
  <2>1. SetBy(es, n, l) = {}
    BY <1>4 DEF SetBy
  <2>2. content[l] = {} /\ l \in Leaf /\ l # "node"
    BY <1>4, IfaceLeaves DEF Sound, Iface
  <2> QED
    BY <1>1, <2>1, <2>2
<1>5. ASSUME NEW l \in Leaf \ Multi PROVE \E v \in Value : R[l] \subseteq {v}
  <2>1. CASE SetBy(es, n, l) = {}
    <3>1. R[l] = {Present} \/ R[l] \subseteq content[l]
      BY <1>1, <2>1
    <3> QED
      BY <3>1, IfaceLeaves DEF Sound, OneValue
  <2>2. CASE SetBy(es, n, l) # {}
    <3>1. PICK v \in Value : v \in SetBy(es, n, l)
      BY <2>2 DEF SetBy
    <3>2. PICK c \in es : c.op = "set" /\ c.node = n /\ l \in c.leaves /\ v \in c.vals
      BY <3>1 DEF SetBy
    <3>3. ASSUME NEW w \in SetBy(es, n, l) PROVE w = v
      <4>1. PICK d \in es : d.op = "set" /\ d.node = n /\ l \in d.leaves /\ w \in d.vals
        BY DEF SetBy
      <4>2. c.leaves = {l} /\ d.leaves = {l}
        BY <3>2, <4>1 DEF EditsOK
      <4>3. c = d
        BY <3>2, <4>1, <4>2 DEF EditsOK
      <4>4. \E x \in Value : c.vals = {x}
        BY <3>2 DEF EditsOK
      <4> QED
        BY <3>2, <4>1, <4>3, <4>4
    <3>4. R[l] = {Present} \/ R[l] = SetBy(es, n, l)
      BY <1>1, <2>2
    <3> QED
      BY <3>3, <3>4, IfaceLeaves
  <2> QED
    BY <2>1, <2>2
<1> QED
  BY <1>3, <1>4, <1>5 DEF Sound, OneValue

\* The diff of a NIC, a vif or a NAT rule.
HaveOf(f, config) == IF Moved(f) THEN Absent ELSE config[f.node]

LEMMA ObjectDiffIs ==
  ASSUME page \in Pages, NEW f, FormOK(f), f.node[1] \in Object, NEW config
  PROVE  /\ NodeDiff(f, config).drops =
              (IF Moved(f) THEN {DeleteNode(f.from)} ELSE {})
                \union IfaceDrop(f.node, HaveOf(f, config), f.want)
         /\ NodeDiff(f, config).edits =
              ObjectEdits(f.node, Compared(f), HaveOf(f, config), f.want)
         /\ NodeDiff(f, config) = [drops |-> NodeDiff(f, config).drops,
                                   edits |-> NodeDiff(f, config).edits]
<1>1. f.node[1] \in {"nic", "vif", "source", "destination"}
  BY DEF Object, Nat44
<1>2. NodeDiff(f, config) = ObjectDiff(f, config)
  BY <1>1 DEF NodeDiff
<1>3. Compared(f) = Managed[f.node[1]] \ Iface
  BY <1>1 DEF Compared
<1>4. ObjectDiff(f, config) =
        [drops |-> (IF Moved(f) THEN {DeleteNode(f.from)} ELSE {})
                     \union IfaceDrop(f.node, HaveOf(f, config), f.want),
         edits |-> ObjectEdits(f.node, Compared(f), HaveOf(f, config), f.want)]
  BY <1>3 DEF ObjectDiff, ObjectEdits, ObjectSets, HaveOf
<1> QED
  BY <1>2, <1>4

\* What a form may say about the interface.
LEMMA ObjectWant ==
  ASSUME page \in Pages, NEW f, FormOK(f), f.node[1] \in Object
  PROVE  /\ AskedIface(f.want) /\ OneValue(f.want) /\ f.want \in Content
         /\ f.node[1] \notin Nat44 => \A l \in Iface : f.want[l] = {} /\ l \notin f.asks
         /\ f.node[1] \in Nat44 => Iface \intersect f.asks = {"name", "group"}
         /\ f.asks = Managed[f.node[1]] \union {"node"} /\ f.asks \subseteq Leaf
         /\ Managed[f.node[1]] \intersect SetOnly = {}
         /\ f.asks \ {"node"} = Compared(f) \union (Iface \intersect f.asks)
<1>1. f.node[1] \in {"nic", "vif", "source", "destination"}
  BY DEF Object, Nat44
<1>2. /\ f.asks = Managed[f.node[1]] \union {"node"} /\ f.asks \subseteq Leaf
      /\ f.want \in Content /\ OneValue(f.want)
      /\ f.want["name"] = {} \/ f.want["group"] = {}
      /\ \A l \in Leaf \ f.asks : f.want[l] = {}
  BY DEF FormOK, Form
<1>3. /\ f.node[1] \notin Nat44 => Managed[f.node[1]] \intersect Iface = {}
      /\ f.node[1] \in Nat44 => Managed[f.node[1]] \intersect Iface = {"name", "group"}
      /\ Managed[f.node[1]] \intersect SetOnly = {}
      /\ "node" \notin Managed[f.node[1]]
  BY <1>1, KindAssumption DEF Kinds
<1>4. "node" \notin Iface /\ Iface \subseteq Leaf /\ Iface = {"name", "group", "bare"}
  BY IfaceLeaves DEF Iface
<1>5. "bare" \notin f.asks
  BY <1>2, <1>3, <1>4
<1>6. AskedIface(f.want)
  BY <1>2, <1>4, <1>5 DEF AskedIface
<1>7. Compared(f) = Managed[f.node[1]] \ Iface
  BY <1>1 DEF Compared
<1>8. f.node[1] \notin Nat44 => \A l \in Iface : f.want[l] = {} /\ l \notin f.asks
  BY <1>2, <1>3, <1>4
<1>9. f.node[1] \in Nat44 => Iface \intersect f.asks = {"name", "group"}
  BY <1>2, <1>3, <1>4
<1>10. f.asks \ {"node"} = Compared(f) \union (Iface \intersect f.asks)
  BY <1>2, <1>3, <1>4, <1>7
<1> QED
  BY <1>2, <1>3, <1>6, <1>8, <1>9, <1>10

\* What such a form asks for.
LEMMA ObjectWanted ==
  ASSUME page \in Pages, NEW f, FormOK(f), f.node[1] \in Object,
         NEW content \in Content, f.node[1] \notin Nat44 => \A l \in Iface : content[l] = {}
  PROVE  /\ Wanted(f, content)["node"] = {Present}
         /\ \A l \in Compared(f) : Wanted(f, content)[l] = f.want[l]
         /\ \A l \in Iface : Wanted(f, content)[l] = f.want[l]
         /\ \A l \in Leaf \ (Compared(f) \union Iface \union {"node"}) :
              Wanted(f, content)[l] = content[l]
<1> DEFINE W == Wanted(f, content)
<1>1. /\ AskedIface(f.want)
      /\ f.node[1] \notin Nat44 => \A l \in Iface : f.want[l] = {} /\ l \notin f.asks
      /\ f.node[1] \in Nat44 => Iface \intersect f.asks = {"name", "group"}
      /\ f.asks = Managed[f.node[1]] \union {"node"} /\ f.asks \subseteq Leaf
      /\ Managed[f.node[1]] \intersect SetOnly = {}
      /\ f.asks \ {"node"} = Compared(f) \union (Iface \intersect f.asks)
  BY ObjectWant
<1>2. "node" \in f.asks /\ f.want["node"] = {Present}
  BY <1>1 DEF FormOK
<1>3. W = [l \in Leaf |->
             IF l = "node" /\ \E k \in f.asks : f.want[k] # {} THEN {Present}
             ELSE IF l = "bare" /\ Iface \intersect f.asks # {} THEN {}
             ELSE IF Effective(f, l) THEN f.want[l] ELSE content[l]]
  BY <1>2 DEF Wanted
<1>4. /\ "node" \notin Iface /\ "node" \in Leaf /\ Iface \subseteq Leaf
      /\ Iface = {"name", "group", "bare"}
  BY IfaceLeaves DEF Iface
<1>5. Compared(f) \subseteq Leaf /\ "node" \notin Compared(f) /\ Compared(f) \intersect Iface = {}
  BY ComparedLeaves
<1>6. \A l \in Leaf \ {"node"} : Effective(f, l) <=> l \in f.asks
  BY <1>1 DEF Effective
<1> HIDE DEF W
<1>7. W["node"] = {Present}
  BY <1>2, <1>3, <1>4
<1>8. \A l \in Compared(f) : W[l] = f.want[l]
  BY <1>1, <1>3, <1>4, <1>5, <1>6
<1>9. \A l \in Leaf \ (Compared(f) \union Iface \union {"node"}) : W[l] = content[l]
  BY <1>1, <1>3, <1>4, <1>6
<1>10. ASSUME NEW l \in Iface PROVE W[l] = f.want[l]
  <2>1. CASE f.node[1] \in Nat44
    <3>1. CASE l = "bare"
      BY <1>1, <1>3, <1>4, <2>1, <3>1 DEF AskedIface
    <3>2. CASE l # "bare"
      <4>1. l \in f.asks /\ l # "node" /\ l \in Leaf
        BY <1>1, <1>4, <2>1, <3>2
      <4> QED
        BY <1>3, <1>6, <3>2, <4>1
    <3> QED
      BY <3>1, <3>2
  <2>2. CASE f.node[1] \notin Nat44
    <3>1. l \notin f.asks /\ f.want[l] = {} /\ content[l] = {} /\ l # "node" /\ l \in Leaf
      BY <1>1, <1>4, <2>2
    <3> QED
      BY <1>3, <1>6, <3>1
  <2> QED
    BY <2>1, <2>2
<1> QED
  BY <1>7, <1>8, <1>9, <1>10 DEF W

\* The pages show the same of what is there and of what was asked for: an interface
\* that is given in another of the ways for a name is not set again.
LEMMA SameShown ==
  ASSUME NEW n, n[1] \in Object, NEW R \in Content, NEW W \in Content,
         NEW have \in Content, NEW want \in Content, NEW L,
         ObjectReached(R, L, have, want), OneIface(have), AskedIface(want),
         L \intersect Iface = {}, "node" \notin L,
         n[1] \notin Nat44 => \A l \in Iface : have[l] = {} /\ want[l] = {},
         W["node"] = {Present}, \A l \in L : W[l] = want[l],
         \A l \in Iface : W[l] = want[l],
         \A l \in Leaf \ (L \union Iface \union {"node"}) : W[l] = have[l]
  PROVE  Shown(n, R) = Shown(n, W) /\ IfaceOf(R) = IfaceOf(want)
<1>1. Iface = {"name", "group", "bare"} /\ n[1] # "state"
  BY DEF Iface, Object, Nat44
<1>2. \A l \in Leaf \ Iface : R[l] = W[l]
  BY DEF ObjectReached
<1>3. R = [l \in Leaf |-> R[l]] /\ W = [l \in Leaf |-> W[l]]
  BY DEF Content
<1>4. IfaceOf(W) = IfaceOf(want)
  BY <1>1 DEF IfaceOf
<1>5. IfaceOf(R) = IfaceOf(want)
  <2>1. CASE IfaceGoes(have, want)
    BY <2>1 DEF ObjectReached, IfaceOf, AskedIface
  <2>2. CASE ~IfaceGoes(have, want)
    <3>1. IfaceOf(R) = IfaceOf(have)
      BY <1>1, <2>2 DEF ObjectReached, IfaceOf
    <3> QED
      BY <2>2, <3>1 DEF IfaceGoes
  <2> QED
    BY <2>1, <2>2
<1>6. CASE IfaceGoes(have, want)
  <2>1. \A l \in Iface : R[l] = W[l]
    BY <1>1, <1>6 DEF ObjectReached, AskedIface
  <2>2. R = W
    BY <1>2, <1>3, <2>1
  <2> QED
    BY <1>5, <2>2
<1>7. CASE ~IfaceGoes(have, want) /\ n[1] \notin Nat44
  <2>1. \A l \in Iface : R[l] = W[l]
    BY <1>1, <1>7 DEF ObjectReached
  <2>2. R = W
    BY <1>2, <1>3, <2>1
  <2> QED
    BY <1>5, <2>2
<1>8. CASE ~IfaceGoes(have, want) /\ n[1] \in Nat44
  <2> DEFINE NameOf(c) == IF IfaceOf(c).kind = "name" THEN IfaceOf(c).vals ELSE c["name"]
  <2>1. /\ Shown(n, R) = [R EXCEPT !["bare"] = {}, !["name"] = NameOf(R)]
        /\ Shown(n, W) = [W EXCEPT !["bare"] = {}, !["name"] = NameOf(W)]
    BY <1>1, <1>8 DEF Shown, Nat44
  <2>2. \A l \in Iface : R[l] = have[l] /\ W[l] = want[l]
    BY <1>8 DEF ObjectReached
  <2>3. IfaceOf(have) = IfaceOf(want)
    BY <1>8 DEF IfaceGoes
  <2>4. R["group"] = W["group"]
    <3>1. CASE IfaceOf(want).kind = "name"
      <4>1. want["group"] = {}
        BY <3>1 DEF IfaceOf, AskedIface
      <4>2. have["group"] = {}
        BY <1>1, <2>3, <3>1 DEF IfaceOf, OneIface
      <4> QED
        BY <1>1, <2>2, <4>1, <4>2
    <3>2. CASE IfaceOf(want).kind # "name"
      <4>1. IfaceOf(want).vals = want["group"]
        BY <3>2 DEF IfaceOf
      <4>2. IfaceOf(have).vals = have["group"]
        BY <2>3, <3>2 DEF IfaceOf
      <4> QED
        BY <1>1, <2>2, <2>3, <4>1, <4>2
    <3> QED
      BY <3>1, <3>2
  <2>5. NameOf(R) = NameOf(W)
    <3>1. CASE IfaceOf(want).kind = "name"
      BY <1>4, <1>5, <3>1
    <3>2. CASE IfaceOf(want).kind # "name"
      <4>1. want["name"] = {} /\ have["name"] = {}
        BY <2>3, <3>2 DEF IfaceOf
      <4> QED
        BY <1>1, <1>4, <1>5, <2>2, <3>2, <4>1
    <3> QED
      BY <3>1, <3>2
  <2> HIDE DEF NameOf
  <2>6. Shown(n, R) = Shown(n, W)
    <3> DEFINE AsShown(c) == [l \in Leaf |-> IF l = "bare" THEN {}
                                           ELSE IF l = "name" THEN NameOf(c) ELSE c[l]]
    <3>1. /\ [R EXCEPT !["bare"] = {}, !["name"] = NameOf(R)] = AsShown(R)
          /\ [W EXCEPT !["bare"] = {}, !["name"] = NameOf(W)] = AsShown(W)
      BY <1>3
    <3>2. \A l \in Leaf \ {"bare", "name"} : R[l] = W[l]
      BY <1>1, <1>2, <2>4
    <3>3. AsShown(R) = AsShown(W)
      BY <2>5, <3>2
    <3> QED
      BY <2>1, <3>1, <3>3
  <2> QED
    BY <1>5, <2>6
<1> QED
  BY <1>6, <1>7, <1>8

LEMMA IfaceDropFields ==
  ASSUME NEW n \in Node, NEW have, NEW want, NEW c \in IfaceDrop(n, have, want)
  PROVE  /\ c \in Command /\ c.op = "delete" /\ c.node = n /\ c.leaves = Iface /\ c.vals = Value
         /\ IfaceOf(have).vals # {}
         /\ \A d \in IfaceDrop(n, have, want) : d = c
<1>1. c = Delete(n, Iface, Value) /\ IfaceOf(have).vals # {}
  BY DEF IfaceDrop
<1>2. \A d \in IfaceDrop(n, have, want) : d = Delete(n, Iface, Value)
  BY DEF IfaceDrop
<1> QED
  BY <1>1, <1>2, IfaceLeaves DEF Delete, Command

\* A form of a NIC, a vif or a NAT rule.
LEMMA ObjectForm ==
  ASSUME TypeInv, LiveInv, NEW f, FormOK(f), f.node[1] \in Object
  PROVE  FormShape(f) /\ FormLeaves(f) /\ (FormPlain(f) => FormReached(f) /\ FormMatters(f))
<1> DEFINE n == f.node
           L == Compared(f)
           have == HaveOf(f, live)
           want == f.want
           R == FormAfter(f, n)
           k == f.node[1]
           ds == NodeDiff(f, live).drops
           es == NodeDiff(f, live).edits
<1>1. /\ L \in SUBSET Leaf /\ "node" \notin L /\ L \intersect Iface = {} /\ n \in Node
      /\ f.from \in Node /\ page \in Pages /\ k \notin {"options", "system", "state"}
  BY ComparedLeaves DEF TypeInv, FormOK, Form, Object, Nat44
<1>2. /\ want \in Content /\ OneValue(want) /\ AskedIface(want)
      /\ k \notin Nat44 => \A l \in Iface : want[l] = {}
  BY <1>1, ObjectWant
<1>3. /\ live[n] \in Content /\ Sound(k, live[n]) /\ OneValue(live[n]) /\ OneIface(live[n])
      /\ live[f.from] \in Content
  BY <1>1, LiveFacts DEF LiveInv
<1>4. /\ have \in Content /\ OneValue(have) /\ OneIface(have) /\ have["node"] \subseteq {Present}
      /\ k \notin Nat44 => \A l \in Iface : have[l] = {}
  BY <1>1, <1>3, AbsentFacts, IfaceLeaves DEF HaveOf, Sound, Iface
<1>5. /\ ds = (IF Moved(f) THEN {DeleteNode(f.from)} ELSE {}) \union IfaceDrop(n, have, want)
      /\ es = ObjectEdits(n, L, have, want)
  BY <1>1, ObjectDiffIs
<1>6. Moved(f) => IfaceDrop(n, have, want) = {} /\ f.from # n
  BY IfaceLeaves, AbsentFacts DEF HaveOf, IfaceDrop, IfaceOf, Moved
<1>7. /\ es \subseteq Command /\ EditsOK(es) /\ EditsDo(es, have)
      /\ \A c \in es : /\ c.node = n
                       /\ c.leaves \subseteq L \union {"name", "group", "node"}
                       /\ c.op = "delete" => c.leaves \subseteq L
                       /\ "node" \in c.leaves => \A d \in es : d.op = "set" => d = c
  <2> HIDE DEF n, L, have, want
  <2> QED
    BY <1>1, <1>2, <1>4, <1>5, ObjectShape
<1>8. R = After(ds, es, live[n], n)
  BY DEF FormAfter
<1> HIDE DEF have, L, want
<1>9. FormShape(f)
  <2>1. ASSUME NEW c \in ds PROVE c \in Command /\ c.op = "delete" /\ c.node \in {n, f.from}
    BY <1>1, <1>5, DeleteNodeFields, IfaceDropFields
  <2> QED
    BY <1>7, <2>1 DEF FormShape
<1>10. Sound(k, R)
  <2>1. ASSUME k \notin Nat44, NEW c \in es PROVE c.leaves \intersect Iface = {}
    <3>1. IfaceSet(n, have, want) = {}
      <4>1. IfaceOf(have) = IfaceOf(want)
        BY <1>2, <1>4, <2>1 DEF IfaceOf, Iface
      <4> QED
        BY <4>1 DEF IfaceSet
    <3>2. es \subseteq LeavesDiff(n, L, have, want) \union {Create(n)}
      BY <1>5, <3>1 DEF ObjectEdits, ObjectSets
    <3>3. "node" \notin Iface
      BY DEF Iface
    <3>4. \A d \in LeavesDiff(n, L, have, want) : d.leaves \subseteq L
      BY <1>1, <1>2, <1>4, LeavesShape
    <3> QED
      BY <1>1, <3>2, <3>3, <3>4, CreateFields
  <2> HIDE DEF R, ds, es, n, k
  <2> QED
    BY <1>3, <1>7, <1>8, <2>1, SoundAfter
<1>11. FormLeaves(f)
  <2>1. ASSUME Moved(f) PROVE FormAfter(f, f.from) = Absent
    <3>1. DeleteNode(f.from) \in ds /\ \A c \in es : c.node # f.from
      BY <1>5, <1>6, <1>7, <2>1
    <3>2. After(ds, es, live[f.from], f.from) = Absent
      <4> HIDE DEF ds, es
      <4> QED
        BY <1>3, <3>1, NodeGone
    <3> QED
      BY <3>2 DEF FormAfter
  <2> QED
    BY <1>10, <2>1 DEF FormLeaves
<1>12. ASSUME FormPlain(f) PROVE have = live[n] /\ ObjectReached(R, L, have, want)
  <2>1. have = live[n]
    BY <1>12 DEF HaveOf, FormPlain, have
  <2>2. \A l \in Leaf : DroppedBy(ds, n, l) = DroppedBy(IfaceDrop(n, have, want), n, l)
    BY <1>5, <1>6, DeleteNodeFields DEF DroppedBy
  <2>3. R = After(ds, ObjectEdits(n, L, have, want), have, n)
    BY <1>5, <1>8, <2>1
  <2> HIDE DEF R, ds, n
  <2> QED
    BY <1>1, <1>2, <1>4, <2>1, <2>2, <2>3, ObjectAfter
<1>13. ASSUME FormPlain(f) PROVE FormReached(f)
  <2> DEFINE W == Wanted(f, have)
  <2>1. ObjectReached(R, L, have, want)
    BY <1>12, <1>13
  <2>2. /\ W["node"] = {Present}
        /\ \A l \in L : W[l] = want[l]
        /\ \A l \in Iface : W[l] = want[l]
        /\ \A l \in Leaf \ (L \union Iface \union {"node"}) : W[l] = have[l]
    BY <1>1, <1>4, ObjectWanted DEF L, want
  <2>3. R \in Content
    <3>1. R = [l \in Leaf |-> R[l]]
      BY <1>8 DEF After
    <3>2. \A l \in Leaf : R[l] \subseteq Value
      <4>1. \A l \in Leaf : live[n][l] \subseteq Value
        BY <1>3 DEF Content
      <4>2. \A l \in Leaf : SetBy(es, n, l) \subseteq Value
        BY DEF SetBy
      <4> HIDE DEF es, ds, n
      <4> QED
        BY <1>8, <4>1, <4>2, IfaceLeaves DEF After
    <3> HIDE DEF R
    <3> QED
      BY <3>1, <3>2 DEF Content
  <2>4. W \in Content
    <3>1. W = [l \in Leaf |-> W[l]]
      BY DEF Wanted, Absent
    <3>2. \A l \in Leaf : want[l] \subseteq Value /\ have[l] \subseteq Value
      BY <1>2, <1>4 DEF Content
    <3>3. \A l \in Leaf : W[l] = {Present} \/ W[l] = want[l] \/ W[l] = have[l]
      BY <2>2
    <3> HIDE DEF W
    <3>4. \A l \in Leaf : W[l] \subseteq Value
      BY <3>2, <3>3, IfaceLeaves
    <3> QED
      BY <3>1, <3>4 DEF Content
  <2> HIDE DEF W, R
  <2>5. Shown(n, R) = Shown(n, W) /\ IfaceOf(R) = IfaceOf(want)
    BY <1>1, <1>2, <1>4, <2>1, <2>2, <2>3, <2>4, SameShown
  <2>6. Valid(k, R)
    <3>1. R["node"] # {}
      BY <2>1 DEF ObjectReached
    <3>2. \A i, j \in Iface : R[i] # {} /\ R[j] # {} => i = j
      <4>1. CASE IfaceGoes(have, want)
        BY <1>2, <2>1, <4>1 DEF ObjectReached, AskedIface, Iface
      <4>2. CASE ~IfaceGoes(have, want)
        BY <1>4, <2>1, <4>2 DEF ObjectReached, OneIface
      <4> QED
        BY <4>1, <4>2
    <3> QED
      BY <1>1, <3>1, <3>2 DEF Valid
  <2>7. ASSUME ~Moved(f), NEW config, config[n] = R
        PROVE  NodeDiff(f, config) = [drops |-> {}, edits |-> {}]
    <3>1. HaveOf(f, config) = R
      BY <2>7 DEF HaveOf
    <3>2. /\ NodeDiff(f, config).drops = IfaceDrop(n, R, want)
          /\ NodeDiff(f, config).edits = ObjectEdits(n, L, R, want)
          /\ NodeDiff(f, config) = [drops |-> NodeDiff(f, config).drops,
                                    edits |-> NodeDiff(f, config).edits]
      BY <1>1, <2>7, <3>1, ObjectDiffIs DEF L, want
    <3>3. IfaceDrop(n, R, want) = {} /\ IfaceSet(n, R, want) = {}
      BY <2>5 DEF IfaceDrop, IfaceSet
    <3>4. LeavesDiff(n, L, R, want) = {}
      BY <2>1, LeavesSame DEF ObjectReached
    <3>5. ObjectEdits(n, L, R, want) = {}
      BY <2>1, <3>3, <3>4 DEF ObjectEdits, ObjectSets, ObjectReached
    <3> QED
      BY <3>2, <3>3, <3>5
  <2>8. (IF Moved(f) THEN Absent ELSE live[n]) = have
    BY DEF have, HaveOf
  <2> QED
    BY <2>5, <2>6, <2>7, <2>8 DEF FormReached, R, W
<1>14. ASSUME FormPlain(f) PROVE FormMatters(f)
  <2>1. \A m \in {n, f.from} : \A l \in Leaf : live[m][l] \intersect Value = live[m][l]
    BY <1>3 DEF Content
  <2>2. ASSUME NEW c \in ds PROVE \E l \in c.leaves : live[c.node][l] \intersect c.vals # {}
    <3>1. CASE Moved(f) /\ c = DeleteNode(f.from)
      <4>1. live[f.from] # Absent
        BY <1>14, <3>1 DEF FormPlain
      <4>2. \E l \in Leaf : live[f.from][l] # {}
        BY <1>3, <4>1 DEF Content, Absent
      <4>3. c.node = f.from /\ c.leaves = Leaf /\ c.vals = Value
        BY <3>1, DeleteNodeFields
      <4> QED
        BY <2>1, <4>2, <4>3
    <3>2. CASE c \in IfaceDrop(n, have, want)
      <4>1. c.node = n /\ c.leaves = Iface /\ c.vals = Value /\ IfaceOf(have).vals # {}
        BY <1>1, <3>2, IfaceDropFields
      <4>2. \E l \in Iface : have[l] # {}
        BY <4>1 DEF IfaceOf, Iface
      <4>3. have = live[n] /\ Iface \subseteq Leaf
        BY <1>12, <1>14, IfaceLeaves
      <4> QED
        BY <2>1, <4>1, <4>2, <4>3
    <3> QED
      BY <1>5, <3>1, <3>2
  <2>3. \A c, d \in ds : c = d
    BY <1>1, <1>5, <1>6, IfaceDropFields
  <2>4. EditsDo(es, live[n])
    BY <1>7, <1>12, <1>14
  <2>5. ASSUME NEW c \in es, c.op = "delete", NEW d \in ds, d.node = n
        PROVE  c.leaves \intersect d.leaves = {}
    <3>1. d \in IfaceDrop(n, have, want)
      BY <1>5, <1>6, <2>5, DeleteNodeFields
    <3>2. d.leaves = Iface
      BY <1>1, <3>1, IfaceDropFields
    <3> QED
      BY <1>1, <1>7, <2>5, <3>2
  <2> QED
    BY <1>7, <2>2, <2>3, <2>4, <2>5 DEF FormMatters
<1> QED
  BY <1>9, <1>11, <1>13, <1>14

LEMMA FormWorks ==
  ASSUME TypeInv, LiveInv, NEW f, FormOK(f)
  PROVE  FormShape(f) /\ FormLeaves(f) /\ (FormPlain(f) => FormReached(f) /\ FormMatters(f))
BY ObjectForm, OnForm, OffForm

\* A value that a rule is given is there afterwards, also when the rule was moved onto
\* one that is in use; a plain request gives all its leaves.
LEMMA RuleGets ==
  ASSUME TypeInv, LiveInv, NEW f, FormOK(f), f.node[1] \in Object,
         NEW l \in Compared(f), l \notin Multi
  PROVE  f.want[l] # {} \/ FormPlain(f) => FormAfter(f, f.node)[l] = f.want[l]
<1> DEFINE n == f.node
           L == Compared(f)
           have == HaveOf(f, live)
           want == f.want
           R == FormAfter(f, n)
           ds == NodeDiff(f, live).drops
           es == NodeDiff(f, live).edits
<1>1. /\ L \in SUBSET Leaf /\ "node" \notin L /\ L \intersect Iface = {} /\ n \in Node
      /\ f.from \in Node /\ page \in Pages /\ l \in Leaf /\ l # "node" /\ l \notin Iface
  BY ComparedLeaves DEF TypeInv, FormOK, Form
<1>2. want \in Content /\ OneValue(want) /\ AskedIface(want)
  BY <1>1, ObjectWant
<1>3. live[n] \in Content /\ OneValue(live[n]) /\ OneIface(live[n])
  BY <1>1, LiveFacts
<1>4. have \in Content /\ OneValue(have) /\ OneIface(have)
  BY <1>1, <1>3, AbsentFacts DEF HaveOf
<1>5. /\ ds = (IF Moved(f) THEN {DeleteNode(f.from)} ELSE {}) \union IfaceDrop(n, have, want)
      /\ es = ObjectEdits(n, L, have, want)
  BY <1>1, ObjectDiffIs
<1>6. R = After(ds, es, live[n], n)
  BY DEF FormAfter
<1>7. DroppedBy(ds, n, l) = {}
  BY <1>1, <1>5, DeleteNodeFields, IfaceDropFields DEF DroppedBy, Moved
<1>8. SetBy(es, n, l) = Gains(L, have, want, l) /\ CutBy(es, n, l) = Loses(L, have, want, l)
  <2> HIDE DEF L, have, want, n, es
  <2>1. /\ SetBy(ObjectEdits(n, L, have, want), n, l) =
             SetBy(LeavesDiff(n, L, have, want), n, l) \union SetBy(IfaceSet(n, have, want), n, l)
        /\ CutBy(ObjectEdits(n, L, have, want), n, l) = CutBy(LeavesDiff(n, L, have, want), n, l)
    BY <1>1, <1>2, <1>4, ObjectBy
  <2>2. SetBy(IfaceSet(n, have, want), n, l) = {}
    BY <1>1, <1>2, <1>4, IfaceSetBy DEF Iface
  <2>3. SetBy(LeavesDiff(n, L, have, want), n, l) = Gains(L, have, want, l)
    BY <1>1, <1>2, <1>4, LeavesSetBy
  <2>4. CutBy(LeavesDiff(n, L, have, want), n, l) = Loses(L, have, want, l)
    BY <1>1, <1>2, <1>4, LeavesCutBy
  <2> QED
    BY <1>5, <2>1, <2>2, <2>3, <2>4
<1>9. /\ \A m \in Leaf : live[n][m] \subseteq Value
      /\ \A m \in Leaf : Absent[m] = {}
  BY <1>3, AbsentFacts DEF Content
<1>10. FormPlain(f) => have = live[n]
  BY DEF HaveOf, FormPlain
<1>11. want[l] # {} /\ want[l] = have[l] => have = live[n]
  BY <1>1, <1>9 DEF HaveOf
<1> HIDE DEF L, want, have, R, n, ds, es
<1>12. R[l] = IF Gains(L, have, want, l) # {} THEN Gains(L, have, want, l)
              ELSE (live[n][l] \union Gains(L, have, want, l)) \ Loses(L, have, want, l)
  BY <1>1, <1>6, <1>7, <1>8 DEF After
<1>13. CASE want[l] = have[l]
  <2>1. Gains(L, have, want, l) = {} /\ Loses(L, have, want, l) = {}
    BY <1>13 DEF Gains, Loses
  <2> QED
    BY <1>10, <1>11, <1>12, <1>13, <2>1 DEF R, want, n
<1>14. CASE want[l] # have[l]
  <2>1. Gains(L, have, want, l) = want[l]
    BY <1>14 DEF Gains, L
  <2>2. want[l] = {} => Loses(L, have, want, l) = Value
    BY <1>14 DEF Loses, L
  <2> QED
    BY <1>1, <1>9, <1>12, <2>1, <2>2 DEF R, want, n
<1> QED
  BY <1>13, <1>14

-----------------------------------------------------------------------------
(***************************************************************************)
(* A request                                                               *)
(***************************************************************************)

\* The forms of a request edit different nodes.
FormsOK(forms) ==
  /\ \A f \in forms : FormOK(f)
  /\ \A f, g \in forms : f # g => {f.node, f.from} \intersect {g.node, g.from} = {}

\* The two halves of a mapping belong together.
PairsOK(forms) ==
  \A f, g \in forms : f.node[1] = "source" /\ g.node[1] = "destination" =>
    /\ f.want["source-address"] # {} /\ f.want["translation-address"] # {}
    /\ g.want["destination-address"] = f.want["translation-address"]
    /\ g.want["translation-address"] = f.want["source-address"]
    /\ g.want["disable"] = f.want["disable"]

\* The content of a node depends on its own commands alone.
LEMMA AfterLocal ==
  ASSUME NEW n, NEW content, NEW ds, NEW es, NEW ds2, NEW es2,
         \A c : c.node = n => (c \in ds <=> c \in ds2),
         \A c : c.node = n => (c \in es <=> c \in es2)
  PROVE  After(ds, es, content, n) = After(ds2, es2, content, n)
<1>1. \A l \in Leaf : DroppedBy(ds, n, l) = DroppedBy(ds2, n, l)
  BY DEF DroppedBy
<1>2. \A l \in Leaf : SetBy(es, n, l) = SetBy(es2, n, l)
  BY DEF SetBy
<1>3. \A l \in Leaf : CutBy(es, n, l) = CutBy(es2, n, l)
  BY DEF CutBy
<1>4. Creates(es, n) = Creates(es2, n)
  BY DEF Creates
<1> QED
  BY <1>1, <1>2, <1>3, <1>4 DEF After

\* After a request every node becomes what its form alone makes of it.
LEMMA SubmitOutcome ==
  ASSUME TypeInv, LiveInv, NEW forms, FormsOK(forms), Submit(forms)
  PROVE  /\ Node' = Node
         /\ \A f \in forms : /\ Outcome'[f.node] = FormAfter(f, f.node)
                             /\ Moved(f) => Outcome'[f.from] = Absent
         /\ \A n \in Node : (\A f \in forms : n \notin {f.node, f.from}) =>
              Outcome'[n] = live[n]
<1>1. /\ drops' = UNION {NodeDiff(f, live).drops : f \in forms}
      /\ edits' = UNION {NodeDiff(f, live).edits : f \in forms}
      /\ session' = live /\ page' = page
  BY DEF Submit, Executed
<1>2. Node' = Node
  BY <1>1 DEF Node
<1>3. \A n \in Node : Outcome'[n] = After(drops', edits', live[n], n)
  BY <1>1, <1>2 DEF Outcome
<1>4. \A f \in forms : FormShape(f) /\ FormLeaves(f) /\ f.node \in Node /\ f.from \in Node
  BY FormWorks DEF FormsOK, FormOK, Form
<1>5. ASSUME NEW f \in forms, NEW n \in {f.node, f.from} PROVE Outcome'[n] = FormAfter(f, n)
  <2>1. \A g \in forms : n \in {g.node, g.from} => g = f
    BY <1>5 DEF FormsOK
  <2>2. \A g \in forms : \A c \in NodeDiff(g, live).drops \union NodeDiff(g, live).edits :
          c.node \in {g.node, g.from}
    BY <1>4 DEF FormShape
  <2>3. \A c : c.node = n => (c \in drops' <=> c \in NodeDiff(f, live).drops)
    BY <1>1, <1>5, <2>1, <2>2
  <2>4. \A c : c.node = n => (c \in edits' <=> c \in NodeDiff(f, live).edits)
    BY <1>1, <1>5, <2>1, <2>2
  <2> QED
    BY <1>3, <1>4, <1>5, <2>3, <2>4, AfterLocal DEF FormAfter
<1>6. ASSUME NEW n \in Node, \A f \in forms : n \notin {f.node, f.from} PROVE Outcome'[n] = live[n]
  <2>1. \A c : c.node = n => c \notin drops' /\ c \notin edits'
    BY <1>1, <1>4, <1>6 DEF FormShape
  <2>2. After(drops', edits', live[n], n) = After({}, {}, live[n], n)
    BY <2>1, AfterLocal
  <2> QED
    BY <1>3, <2>2, AfterNothing, LiveFacts
<1>7. \A f \in forms : Moved(f) => Outcome'[f.from] = Absent
  BY <1>4, <1>5 DEF FormLeaves
<1> QED
  BY <1>2, <1>5, <1>6, <1>7

\* Two forms do not write the same place.
LEMMA SubmitBatch ==
  ASSUME TypeInv, LiveInv, NEW forms, FormsOK(forms), Submit(forms)
  PROVE  /\ BatchOK' /\ drops' \subseteq Command /\ edits' \subseteq Command
         /\ \A c \in drops' : \E f \in forms : c \in NodeDiff(f, live).drops
         /\ \A c \in edits' : \E f \in forms : c \in NodeDiff(f, live).edits
<1>1. /\ drops' = UNION {NodeDiff(f, live).drops : f \in forms}
      /\ edits' = UNION {NodeDiff(f, live).edits : f \in forms}
  BY DEF Submit
<1>2. \A f \in forms : FormShape(f)
  BY FormWorks DEF FormsOK
<1>3. \A c \in drops' : \E f \in forms : c \in NodeDiff(f, live).drops
  BY <1>1
<1>4. \A c \in edits' : \E f \in forms : c \in NodeDiff(f, live).edits
  BY <1>1
<1>5. drops' \subseteq Command /\ edits' \subseteq Command /\ \A c \in drops' : c.op = "delete"
  BY <1>2, <1>3, <1>4 DEF FormShape
<1>6. ASSUME NEW c \in edits'
      PROVE  \E l \in Leaf : /\ c.leaves = {l}
                             /\ c.op = "set" => \E v \in Value : c.vals = {v}
                             /\ c.op = "delete" => l # "node"
                             /\ l = "node" => c.vals = {Present}
  BY <1>2, <1>4 DEF FormShape, EditsOK
<1>7. ASSUME NEW c \in edits', NEW d \in edits', c.node = d.node, c.leaves = d.leaves, c # d
      PROVE  c.leaves \subseteq Multi /\ c.vals \intersect d.vals = {}
  <2>1. PICK f \in forms : c \in NodeDiff(f, live).edits
    BY <1>4
  <2>2. PICK g \in forms : d \in NodeDiff(g, live).edits
    BY <1>4
  <2>3. c.node = f.node /\ d.node = g.node
    BY <1>2, <2>1, <2>2 DEF FormShape
  <2>4. f = g
    BY <1>7, <2>3 DEF FormsOK
  <2> QED
    BY <1>2, <1>7, <2>1, <2>2, <2>4 DEF FormShape, EditsOK
<1> QED
  BY <1>3, <1>4, <1>5, <1>6, <1>7 DEF BatchOK, EditsOK

\* A request whose assumptions hold is made of forms whose assumptions hold.
LEMMA SubmitPlain ==
  ASSUME NEW forms, Submit(forms), plain', NEW f \in forms
  PROVE  FormPlain(f)
BY DEF Submit, MovesToNew, SwitchesWithServer, FormPlain

\* Every command of a plain request has something to do.
LEMMA SubmitMatters ==
  ASSUME TypeInv, LiveInv, NEW forms, FormsOK(forms), Submit(forms), plain'
  PROVE  Matters'
<1>1. /\ \A c \in drops' : \E f \in forms : c \in NodeDiff(f, live).drops
      /\ \A c \in edits' : \E f \in forms : c \in NodeDiff(f, live).edits
  BY SubmitBatch
<1>2. \A f \in forms : FormShape(f) /\ FormMatters(f)
  BY FormWorks, SubmitPlain DEF FormsOK
<1>3. session' = live
  BY DEF Submit, Executed
<1>4. \A f, g \in forms : f # g => {f.node, f.from} \intersect {g.node, g.from} = {}
  BY DEF FormsOK
<1>5. ASSUME NEW c \in drops', NEW d \in drops', c.node = d.node PROVE c = d
  <2>1. PICK f \in forms : c \in NodeDiff(f, live).drops
    BY <1>1
  <2>2. PICK g \in forms : d \in NodeDiff(g, live).drops
    BY <1>1
  <2>3. c.node \in {f.node, f.from} /\ d.node \in {g.node, g.from}
    BY <1>2, <2>1, <2>2 DEF FormShape
  <2>4. f = g
    BY <1>4, <1>5, <2>3
  <2> QED
    BY <1>2, <1>5, <2>1, <2>2, <2>4 DEF FormMatters
<1>6. ASSUME NEW c \in drops' PROVE \E l \in c.leaves : live[c.node][l] \intersect c.vals # {}
  BY <1>1, <1>2 DEF FormMatters
<1>7. ASSUME NEW c \in edits', c.op = "set", NEW l \in c.leaves
      PROVE  /\ live[c.node][l] \intersect c.vals = {}
             /\ l = "node" => \A d \in edits' : d.op = "set" /\ d.node = c.node => d = c
  <2>1. PICK f \in forms : c \in NodeDiff(f, live).edits
    BY <1>1
  <2>2. c.node = f.node /\ EditsDo(NodeDiff(f, live).edits, live[f.node])
    BY <1>2, <2>1 DEF FormShape, FormMatters
  <2>3. ASSUME l = "node", NEW d \in edits', d.op = "set", d.node = c.node PROVE d = c
    <3>1. PICK g \in forms : d \in NodeDiff(g, live).edits
      BY <1>1
    <3>2. d.node = g.node
      BY <1>2, <3>1 DEF FormShape
    <3>3. f = g
      BY <1>4, <2>2, <2>3, <3>2
    <3> QED
      BY <1>2, <1>7, <2>1, <2>3, <3>1, <3>3 DEF FormMatters
  <2> QED
    BY <1>7, <2>1, <2>2, <2>3 DEF EditsDo
<1>8. ASSUME NEW c \in edits', c.op = "delete", NEW l \in c.leaves
      PROVE  /\ live[c.node][l] \intersect c.vals # {}
             /\ \A d \in drops' : d.node = c.node => l \notin d.leaves
  <2>1. PICK f \in forms : c \in NodeDiff(f, live).edits
    BY <1>1
  <2>2. c.node = f.node /\ EditsDo(NodeDiff(f, live).edits, live[f.node])
    BY <1>2, <2>1 DEF FormShape, FormMatters
  <2>3. ASSUME NEW d \in drops', d.node = c.node PROVE l \notin d.leaves
    <3>1. PICK g \in forms : d \in NodeDiff(g, live).drops
      BY <1>1
    <3>2. d.node \in {g.node, g.from}
      BY <1>2, <3>1 DEF FormShape
    <3>3. f = g
      BY <1>4, <2>2, <2>3, <3>2
    <3> QED
      BY <1>2, <1>8, <2>1, <2>2, <2>3, <3>1, <3>3 DEF FormMatters
  <2> QED
    BY <1>8, <2>1, <2>2, <2>3 DEF EditsDo
<1> QED
  BY <1>3, <1>5, <1>6, <1>7, <1>8 DEF Matters

\* The outcome of a plain request is what the forms ask for.
LEMMA SubmitGoal ==
  ASSUME TypeInv, LiveInv, NEW forms, FormsOK(forms), Submit(forms), plain', NEW n \in Node
  PROVE  Valid(n[1], Outcome'[n]) /\ Shown(n, Outcome'[n]) = Shown(n, goal'[n])
<1>1. goal' = Goal(forms, live)
  BY DEF Submit
<1>2. /\ \A f \in forms : /\ Outcome'[f.node] = FormAfter(f, f.node)
                          /\ Moved(f) => Outcome'[f.from] = Absent
      /\ (\A f \in forms : n \notin {f.node, f.from}) => Outcome'[n] = live[n]
  BY SubmitOutcome
<1>3. \A f, g \in forms : f # g => {f.node, f.from} \intersect {g.node, g.from} = {}
  BY DEF FormsOK
<1>4. CASE \E f \in forms : f.node = n
  <2>1. PICK f \in forms : f.node = n
    BY <1>4
  <2>2. (CHOOSE g \in forms : g.node = n) = f
    BY <1>3, <2>1
  <2>3. goal'[n] = Wanted(f, IF Moved(f) THEN Absent ELSE live[n])
    BY <1>1, <1>4, <2>2 DEF Goal
  <2>4. FormReached(f)
    BY FormWorks, SubmitPlain DEF FormsOK
  <2> QED
    BY <1>2, <2>1, <2>3, <2>4 DEF FormReached
<1>5. CASE (\A f \in forms : f.node # n) /\ \E f \in forms : f.from = n
  <2>1. PICK f \in forms : f.from = n /\ Moved(f)
    BY <1>5 DEF Moved
  <2>2. goal'[n] = Absent
    BY <1>1, <1>5 DEF Goal
  <2>3. n[1] \in Object
    BY <2>1 DEF FormsOK, FormOK
  <2>4. Valid(n[1], Absent)
    BY <2>3, AbsentFacts DEF Object, Nat44
  <2> QED
    BY <1>2, <2>1, <2>2, <2>4
<1>6. CASE \A f \in forms : n \notin {f.node, f.from}
  <2>1. goal'[n] = live[n]
    BY <1>1, <1>6 DEF Goal
  <2> QED
    BY <1>2, <1>6, <2>1 DEF LiveInv
<1> QED
  BY <1>4, <1>5, <1>6

\* The rules of a mapping mirror each other afterwards.
LEMMA SubmitPair ==
  ASSUME TypeInv, LiveInv, NEW forms, FormsOK(forms), PairsOK(forms), Submit(forms),
         NEW f \in forms, NEW g \in forms, f.node[1] = "source", g.node[1] = "destination"
  PROVE  /\ IsStatic(Outcome', f.node, g.node)
         /\ Outcome'[f.node]["source-address"] = f.want["source-address"]
         /\ Outcome'[f.node]["translation-address"] = f.want["translation-address"]
         /\ plain' => (IsEnabled(Outcome'[f.node]) /\ IsEnabled(Outcome'[g.node]))
                        = IsEnabled(f.want)
<1> DEFINE A == {"source-address", "translation-address", "destination-address", "disable"}
<1>1. FormOK(f) /\ FormOK(g) /\ f.node[1] \in Object /\ g.node[1] \in Object
  BY DEF FormsOK, Object, Nat44
<1>2. \A k \in Nat44 : A \subseteq Managed[k]
  BY KindAssumption
<1>3. A \intersect Multi = {} /\ A \intersect Iface = {}
  BY SingleAssumption DEF Iface
<1>4. A \subseteq Compared(f) /\ A \subseteq Compared(g)
  BY <1>2, <1>3 DEF Compared, Nat44
<1> HIDE DEF A
<1>5. \A h \in {f, g} : \A l \in A : h.want[l] # {} \/ FormPlain(h) =>
        FormAfter(h, h.node)[l] = h.want[l]
  BY <1>1, <1>3, <1>4, RuleGets
<1>6. \A h \in {f, g} : \A l \in A : h.want[l] # {} \/ plain' => Outcome'[h.node][l] = h.want[l]
  BY <1>5, SubmitOutcome, SubmitPlain
<1>7. /\ f.want["source-address"] # {} /\ f.want["translation-address"] # {}
      /\ g.want["destination-address"] = f.want["translation-address"]
      /\ g.want["translation-address"] = f.want["source-address"]
      /\ g.want["disable"] = f.want["disable"]
  BY DEF PairsOK
<1>8. /\ Outcome'[f.node]["source-address"] = f.want["source-address"]
      /\ Outcome'[f.node]["translation-address"] = f.want["translation-address"]
      /\ Outcome'[g.node]["destination-address"] = g.want["destination-address"]
      /\ Outcome'[g.node]["translation-address"] = g.want["translation-address"]
  BY <1>6, <1>7 DEF A
<1>9. ASSUME plain'
      PROVE  (IsEnabled(Outcome'[f.node]) /\ IsEnabled(Outcome'[g.node])) = IsEnabled(f.want)
  <2>1. /\ Outcome'[f.node]["disable"] = f.want["disable"]
        /\ Outcome'[g.node]["disable"] = f.want["disable"]
    BY <1>6, <1>7, <1>9 DEF A
  <2> QED
    BY <2>1 DEF IsEnabled
<1>10. IsStatic(Outcome', f.node, g.node)
  BY <1>7, <1>8 DEF IsStatic
<1> QED
  BY <1>8, <1>9, <1>10

\* A request keeps the invariant.
LEMMA SubmitStep ==
  ASSUME TypeInv, DiffInv, NEW forms, FormsOK(forms), PairsOK(forms), Submit(forms)
  PROVE  TypeInv' /\ DiffInv'
<1>1. LiveInv
  BY DEF DiffInv, ContentInv, LiveInv
<1>2. /\ asked' = forms /\ forms \subseteq Form
      /\ live' = live /\ session' = live /\ page' = page /\ plain' \in BOOLEAN
      /\ Node' = Node /\ Config' = Config /\ Command' = Command /\ Form' = Form
  BY DEF Submit, Executed, FormsOK, FormOK, Node, Config, Command, Form
<1>3. /\ BatchOK' /\ drops' \subseteq Command /\ edits' \subseteq Command
      /\ repeats' \subseteq Repeatable(edits') /\ repeats' \subseteq edits'
  BY <1>1, SubmitBatch DEF Submit, Repeatable
<1>4. TypeInv'
  BY <1>2, <1>3 DEF TypeInv
<1>5. /\ \A f \in forms : /\ Outcome'[f.node] = FormAfter(f, f.node)
                          /\ Moved(f) => Outcome'[f.from] = Absent
      /\ \A n \in Node : (\A f \in forms : n \notin {f.node, f.from}) => Outcome'[n] = live[n]
  BY <1>1, SubmitOutcome
<1>6. ContentInv'
  <2>1. ASSUME NEW n \in Node PROVE Sound(n[1], Outcome'[n])
    <3>1. ASSUME NEW f \in forms, n = f.node PROVE Sound(n[1], Outcome'[n])
      BY <1>1, <1>5, <3>1, FormWorks DEF FormsOK, FormLeaves
    <3>2. ASSUME NEW f \in forms, n = f.from, Moved(f) PROVE Sound(n[1], Outcome'[n])
      BY <1>5, <3>2, AbsentFacts
    <3>3. CASE \A f \in forms : n \notin {f.node, f.from}
      BY <1>1, <1>5, <3>3 DEF LiveInv
    <3> QED
      BY <3>1, <3>2, <3>3 DEF Moved
  <2> QED
    BY <1>1, <1>2, <2>1 DEF ContentInv, LiveInv, Sound
<1>7. FormInv'
  BY <1>1, <1>2, SubmitGoal DEF FormInv
<1>8. AgainInv'
  <2> SUFFICES ASSUME plain', NEW f \in forms, ~Moved(f)
               PROVE  NodeDiff(f, Outcome') = [drops |-> {}, edits |-> {}]
    BY <1>2 DEF AgainInv
  <2>1. FormReached(f)
    BY <1>1, FormWorks, SubmitPlain DEF FormsOK
  <2> QED
    BY <1>5, <2>1 DEF FormReached
<1>9. MatterInv'
  BY <1>1, SubmitMatters DEF MatterInv
<1>10. PairInv'
  BY <1>1, <1>2, SubmitPair DEF PairInv
<1>11. RepeatInv'
  <2> SUFFICES ASSUME NEW c \in repeats'
               PROVE  \E l \in Multi, v \in Value :
                        /\ c.op = "set" /\ c.leaves = {l} /\ c.vals = {v}
                        /\ \A d \in edits' : d.op = "delete" /\ d.node = c.node /\ d.leaves = {l}
                                             => v \notin d.vals
    BY <1>3 DEF RepeatInv
  <2>1. c \in edits' /\ c.op = "set" /\ c.leaves \subseteq Multi
    BY <1>3 DEF Repeatable
  <2>2. PICK l \in Leaf, v \in Value : c.leaves = {l} /\ c.vals = {v}
    BY <1>3, <2>1 DEF BatchOK, EditsOK
  <2>3. ASSUME NEW d \in edits', d.op = "delete", d.node = c.node, d.leaves = {l}
        PROVE  v \notin d.vals
    <3>1. c # d /\ c.leaves = d.leaves
      BY <2>1, <2>2, <2>3
    <3>2. c.vals \intersect d.vals = {}
      BY <1>3, <2>1, <2>3, <3>1 DEF BatchOK, EditsOK
    <3> QED
      BY <2>2, <3>2
  <2> QED
    BY <2>1, <2>2, <2>3
<1> QED
  BY <1>3, <1>4, <1>6, <1>7, <1>8, <1>9, <1>10, <1>11 DEF DiffInv

-----------------------------------------------------------------------------
(***************************************************************************)
(* The handlers                                                            *)
(***************************************************************************)

\* A content that a page can give.
LEMMA InContents ==
  ASSUME NEW values \in [Leaf -> SUBSET Value], NEW leaves \in SUBSET Leaf,
         NEW c \in Contents(values, leaves)
  PROVE  /\ c \in Content /\ OneValue(c)
         /\ \A l \in Leaf : c[l] \subseteq values[l]
         /\ \A l \in Leaf \ leaves : c[l] = {}
<1> DEFINE used == {l \in leaves : values[l] # {}}
<1>1. PICK x \in [used -> UNION {Choices(values, l) : l \in used}] :
        /\ \A l \in used : x[l] \in Choices(values, l)
        /\ c = [l \in Leaf |-> IF l \in used THEN x[l] ELSE {}]
  BY DEF Contents
<1>2. ASSUME NEW l \in Leaf PROVE c[l] = {} \/ (l \in used /\ c[l] \in Choices(values, l))
  BY <1>1
<1>3. ASSUME NEW l \in Leaf
      PROVE  /\ c[l] \subseteq values[l]
             /\ l \notin leaves => c[l] = {}
             /\ l \notin Multi => c[l] = {} \/ \E v \in values[l] : c[l] = {v}
  BY <1>2 DEF Choices
<1>4. c = [l \in Leaf |-> c[l]]
  BY <1>1
<1>5. c \in Content
  BY <1>3, <1>4 DEF Content
<1>6. ASSUME NEW l \in Leaf \ Multi PROVE \E v \in Value : c[l] \subseteq {v}
  BY <1>3, LeafAssumption
<1> QED
  BY <1>3, <1>5, <1>6 DEF OneValue

\* The form of a NIC, a vif or a NAT rule.
LEMMA ObjectFormOK ==
  ASSUME page \in Pages, NEW f \in ObjectForms[page], f.node[1] \in Object
  PROVE  FormsOK({f}) /\ PairsOK({f})
<1>0. PICK n \in Place[page] :
        \E c \in {x \in Contents(Domain[page][n[1]], Managed[n[1]]) :
                     x["name"] = {} \/ x["group"] = {}} :
        \E m \in {k \in Place[page] : k[1] = n[1]} :
        f = [node |-> n, from |-> m, asks |-> Managed[n[1]] \union {"node"},
             want |-> [c EXCEPT !["node"] = {Present}]]
  BY DEF ObjectForms
<1>1. PICK m \in {k \in Place[page] : k[1] = n[1]},
           c \in {x \in Contents(Domain[page][n[1]], Managed[n[1]]) :
                    x["name"] = {} \/ x["group"] = {}} :
        f = [node |-> n, from |-> m, asks |-> Managed[n[1]] \union {"node"},
             want |-> [c EXCEPT !["node"] = {Present}]]
  BY <1>0
<1>2. /\ n \in Node /\ m \in Node /\ m[1] = n[1] /\ n[1] \in Kinds
      /\ c \in Contents(Domain[page][n[1]], Managed[n[1]])
      /\ c["name"] = {} \/ c["group"] = {}
  BY NodeKind DEF Node
<1>3. Domain[page][n[1]] \in [Leaf -> SUBSET Value] /\ Managed[n[1]] \in SUBSET Leaf
  BY <1>2, PageAssumption, LeafAssumption
<1>4. c \in Content /\ OneValue(c) /\ \A l \in Leaf \ Managed[n[1]] : c[l] = {}
  BY <1>2, <1>3, InContents
<1>5. /\ f.node = n /\ f.from = m /\ f.asks = Managed[n[1]] \union {"node"}
      /\ f.want = [c EXCEPT !["node"] = {Present}]
      /\ f = [node |-> f.node, from |-> f.from, asks |-> f.asks, want |-> f.want]
  BY <1>1
<1>6. "node" \in Leaf /\ Present \in Value /\ "node" \notin Iface /\ Iface \subseteq Leaf
  BY LeafAssumption DEF Iface
<1>7. /\ f.want \in Content /\ f.want["node"] = {Present}
      /\ \A l \in Leaf \ {"node"} : f.want[l] = c[l]
  BY <1>4, <1>5, <1>6 DEF Content
<1>8. OneValue(f.want)
  BY <1>4, <1>6, <1>7 DEF OneValue
<1>9. f.want["name"] = {} \/ f.want["group"] = {}
  BY <1>2, <1>6, <1>7 DEF Iface
<1>10. f \in Form
  BY <1>2, <1>3, <1>5, <1>6, <1>7 DEF Form
<1>11. \A l \in Leaf \ f.asks : f.want[l] = {}
  BY <1>4, <1>5, <1>7
<1>12. f.node[1] \notin {"options", "state", "system", "ntp"}
  BY DEF Object, Nat44
<1>13. FormOK(f)
  BY <1>2, <1>5, <1>7, <1>8, <1>9, <1>10, <1>11, <1>12 DEF FormOK
<1> QED
  BY <1>13 DEF FormsOK, PairsOK

\* One half of a mapping.
HalfIs(f, section, rule, from, match, addr, to, dis) ==
  /\ FormOK(f) /\ f.node = <<section, rule>> /\ f.from = <<section, from>>
  /\ f.want[match] = {addr} /\ f.want["translation-address"] = {to}
  /\ f.want["disable"] = dis

LEMMA HalfOK ==
  ASSUME page \in Pages, NEW section \in Nat44, NEW rule, NEW from,
         <<section, rule>> \in Node, <<section, from>> \in Node,
         NEW match \in {"source-address", "destination-address"},
         NEW addr \in Value, NEW to \in Value, NEW name \in SUBSET Value, NEW dis \in SUBSET Value,
         name = {} \/ \E v \in Value : name = {v}, dis = {} \/ \E v \in Value : dis = {v}
  PROVE  HalfIs(StaticHalf(section, rule, from, match, addr, to, name, dis),
                section, rule, from, match, addr, to, dis)
<1> DEFINE f == StaticHalf(section, rule, from, match, addr, to, name, dis)
           w == [Absent EXCEPT !["node"] = {Present}, !["name"] = name, !["disable"] = dis,
                               ![match] = {addr}, !["translation-address"] = {to}]
<1>1. /\ f.node = <<section, rule>> /\ f.from = <<section, from>>
      /\ f.asks = Managed[section] \union {"node"} /\ f.want = w
      /\ f = [node |-> f.node, from |-> f.from, asks |-> f.asks, want |-> f.want]
  BY DEF StaticHalf
<1>2. /\ {"node", "name", "group", "disable", "translation-address", match} \subseteq Leaf
      /\ Present \in Value /\ Managed[section] \subseteq Leaf
      /\ {"name", "disable", "translation-address", match} \subseteq Managed[section]
  BY LeafAssumption, KindAssumption DEF Nat44, Kinds
<1>3. /\ w["node"] = {Present} /\ w["name"] = name /\ w["disable"] = dis /\ w["group"] = {}
      /\ w[match] = {addr} /\ w["translation-address"] = {to}
      /\ \A l \in Leaf \ {"node", "name", "disable", match, "translation-address"} : w[l] = {}
      /\ w = [l \in Leaf |-> w[l]]
  BY <1>2 DEF Absent
<1> HIDE DEF w, f
<1>4. \A l \in Leaf : w[l] = {} \/ \E v \in Value : w[l] = {v}
  BY <1>2, <1>3
<1>5. w \in Content /\ OneValue(w)
  BY <1>2, <1>3, <1>4 DEF Content, OneValue
<1>6. \A l \in Leaf \ f.asks : w[l] = {}
  BY <1>1, <1>2, <1>3
<1>7. f \in Form
  BY <1>1, <1>2, <1>5 DEF Form
<1>8. f.node[1] = section /\ f.from[1] = section
  BY <1>1
<1>9. FormOK(f)
  BY <1>1, <1>3, <1>5, <1>6, <1>7, <1>8 DEF FormOK, Object, Nat44
<1> QED
  BY <1>1, <1>3, <1>9 DEF HalfIs, f

\* The two rules of a mapping.
LEMMA StaticStep ==
  ASSUME TypeInv, DiffInv, StageStatic
  PROVE  TypeInv' /\ DiffInv'
<1>1. PICK rule \in {n[2] : n \in NodesOf("source")}, from \in {n[2] : n \in NodesOf("source")} :
        \E internal \in Domain[page]["source"]["source-address"],
           external \in Domain[page]["destination"]["destination-address"],
           name \in Choices(Domain[page]["source"], "name"),
           dis \in Choices(Domain[page]["source"], "disable") :
           Submit(StaticPair(rule, from, internal, external, name, dis))
  BY DEF StageStatic
<1>2. PICK internal \in Domain[page]["source"]["source-address"],
           external \in Domain[page]["destination"]["destination-address"],
           name \in Choices(Domain[page]["source"], "name"),
           dis \in Choices(Domain[page]["source"], "disable") :
           Submit(StaticPair(rule, from, internal, external, name, dis))
  BY <1>1
<1>3. page \in Pages /\ "static" \in Forms[page]
  BY DEF TypeInv, StageStatic
<1>4. \A x \in {n[2] : n \in NodesOf("source")} :
        <<"source", x>> \in Node /\ <<"destination", x>> \in Node
  <2> SUFFICES ASSUME NEW n \in Node, n[1] = "source"
               PROVE  <<"source", n[2]>> \in Node /\ <<"destination", n[2]>> \in Node
    BY DEF NodesOf
  <2>1. Node \subseteq Kinds \X {m[2] : m \in Node}
    BY <1>3, PageAssumption DEF Node
  <2>2. n = <<n[1], n[2]>>
    BY <2>1
  <2> QED
    BY <1>3, <2>2, PageAssumption DEF Node
<1>5. /\ Domain[page]["source"] \in [Leaf -> SUBSET Value]
      /\ Domain[page]["destination"] \in [Leaf -> SUBSET Value]
  BY <1>3, PageAssumption DEF Kinds
<1>6. /\ internal \in Value /\ external \in Value
      /\ name = {} \/ \E v \in Value : name = {v}
      /\ dis = {} \/ \E v \in Value : dis = {v}
  <2>1. "name" \notin Multi /\ "disable" \notin Multi
    BY SingleAssumption DEF Iface
  <2> QED
    BY <1>5, <2>1, LeafAssumption DEF Choices
<1>p. /\ name \in SUBSET Value /\ dis \in SUBSET Value
      /\ "source" \in Nat44 /\ "destination" \in Nat44
      /\ "source-address" \in {"source-address", "destination-address"}
      /\ "destination-address" \in {"source-address", "destination-address"}
      /\ <<"source", rule>> \in Node /\ <<"source", from>> \in Node
      /\ <<"destination", rule>> \in Node /\ <<"destination", from>> \in Node
  BY <1>4, <1>6 DEF Nat44
<1> DEFINE f == StaticHalf("source", rule, from, "source-address", internal, external, name, dis)
           g == StaticHalf("destination", rule, from, "destination-address", external, internal,
                           name, dis)
<1>7. /\ FormOK(f) /\ f.node = <<"source", rule>> /\ f.from = <<"source", from>>
      /\ f.want["source-address"] = {internal} /\ f.want["translation-address"] = {external}
      /\ f.want["disable"] = dis
  <2>1. HalfIs(f, "source", rule, from, "source-address", internal, external, dis)
    BY <1>3, <1>p, <1>6, HalfOK
  <2> HIDE DEF f
  <2> QED
    BY <2>1 DEF HalfIs
<1>8. /\ FormOK(g) /\ g.node = <<"destination", rule>> /\ g.from = <<"destination", from>>
      /\ g.want["destination-address"] = {external} /\ g.want["translation-address"] = {internal}
      /\ g.want["disable"] = dis
  <2>1. HalfIs(g, "destination", rule, from, "destination-address", external, internal, dis)
    BY <1>3, <1>p, <1>6, HalfOK
  <2> HIDE DEF g
  <2> QED
    BY <2>1 DEF HalfIs
<1> DEFINE forms == {f, g}
<1>9. Submit(forms)
  BY <1>2 DEF StaticPair
<1> HIDE DEF f, g
<1>10. FormsOK(forms)
  BY <1>7, <1>8 DEF FormsOK
<1>11. PairsOK(forms)
  <2> SUFFICES ASSUME NEW x \in forms, NEW y \in forms,
                      x.node[1] = "source", y.node[1] = "destination"
               PROVE  /\ x.want["source-address"] # {} /\ x.want["translation-address"] # {}
                      /\ y.want["destination-address"] = x.want["translation-address"]
                      /\ y.want["translation-address"] = x.want["source-address"]
                      /\ y.want["disable"] = x.want["disable"]
    BY DEF PairsOK
  <2>1. x = f /\ y = g
    BY <1>7, <1>8
  <2> QED
    BY <1>7, <1>8, <2>1
<1> HIDE DEF forms
<1> QED
  BY <1>9, <1>10, <1>11, SubmitStep

\* One NIC, one vif or one NAT rule.
LEMMA ObjectStep ==
  ASSUME TypeInv, DiffInv, StageEthernet \/ StageVlan \/ StageNat44
  PROVE  TypeInv' /\ DiffInv'
<1>1. PICK f \in ObjectForms[page] : f.node[1] \in Object /\ Submit({f})
  BY DEF StageEthernet, StageVlan, StageNat44, Object
<1>2. page \in Pages
  BY DEF TypeInv
<1>3. FormsOK({f}) /\ PairsOK({f})
  BY <1>1, <1>2, ObjectFormOK
<1> DEFINE forms == {f}
<1>4. FormsOK(forms) /\ PairsOK(forms) /\ Submit(forms)
  BY <1>1, <1>3
<1> HIDE DEF forms
<1> QED
  BY <1>4, SubmitStep

\* A form of one of the other kinds edits the node it is about.
OwnForm(n, asks, w) == [node |-> n, from |-> n, asks |-> asks, want |-> w]

LEMMA OtherFormOK ==
  ASSUME NEW n \in Node, n[1] \in {"options", "state", "system", "ntp"},
         NEW asks \in SUBSET Leaf, NEW w \in Content, OneValue(w), w["node"] \subseteq {Present},
         \A l \in Leaf \ asks : w[l] = {},
         n[1] = "options" => asks = Managed["options"],
         n[1] = "state" => asks = Managed["state"] \union {"node"}
                           /\ (w["node"] = {} <=> w["action"] = {}),
         n[1] = "system" => asks \subseteq Managed["system"],
         n[1] = "ntp" => asks \subseteq Managed["ntp"] \union {"node"}
  PROVE  LET f == OwnForm(n, asks, w) IN FormOK(f) /\ f.node = n /\ f.from = n
<1> DEFINE f == OwnForm(n, asks, w)
<1>1. f.node = n /\ f.from = n /\ f.asks = asks /\ f.want = w /\ f \in Form
  BY DEF Form, OwnForm
<1> HIDE DEF f
<1>2. n[1] \notin Object
  BY DEF Object, Nat44
<1> QED
  BY <1>1, <1>2 DEF FormOK, Moved, f

\* The whole page of the firewall's global options.
LEMMA OptionsStep ==
  ASSUME TypeInv, DiffInv, StageGlobalOptions
  PROVE  TypeInv' /\ DiffInv'
<1> DEFINE Option(o, n) == OwnForm(n, Managed["options"], o)
           Want(c) == [c EXCEPT !["node"] = IF c["action"] = {} THEN {} ELSE {Present}]
           State(c, n) == OwnForm(n, Managed["state"] \union {"node"}, Want(c))
<1>1. PICK o \in Contents(Domain[page]["options"], Managed["options"]),
           s \in [NodesOf("state") -> Contents(Domain[page]["state"], Managed["state"])] :
        Submit({Option(o, n) : n \in NodesOf("options")}
               \union {State(s[n], n) : n \in NodesOf("state")})
  BY DEF StageGlobalOptions, OwnForm
<1>2. page \in Pages
  BY DEF TypeInv
<1>3. /\ Domain[page]["options"] \in [Leaf -> SUBSET Value]
      /\ Domain[page]["state"] \in [Leaf -> SUBSET Value]
      /\ Managed["options"] \in SUBSET Leaf /\ Managed["state"] \in SUBSET Leaf
      /\ "node" \in Leaf /\ "action" \in Leaf /\ Present \in Value
      /\ "node" \notin Managed["options"]
  BY <1>2, PageAssumption, LeafAssumption, KindAssumption DEF Kinds
<1>4. ASSUME NEW n \in NodesOf("options")
      PROVE  FormOK(Option(o, n)) /\ Option(o, n).node = n /\ Option(o, n).from = n
  <2>1. n \in Node /\ n[1] = "options"
    BY DEF NodesOf
  <2>2. o \in Content /\ OneValue(o) /\ \A l \in Leaf \ Managed["options"] : o[l] = {}
    BY <1>3, InContents
  <2>3. o["node"] \subseteq {Present} /\ n[1] \in {"options", "state", "system", "ntp"}
    BY <1>3, <2>1, <2>2
  <2> QED
    BY <1>3, <2>1, <2>2, <2>3, OtherFormOK
<1>5. ASSUME NEW n \in NodesOf("state")
      PROVE  FormOK(State(s[n], n)) /\ State(s[n], n).node = n /\ State(s[n], n).from = n
  <2>1. n \in Node /\ n[1] = "state" /\ s[n] \in Contents(Domain[page]["state"], Managed["state"])
    BY DEF NodesOf
  <2>2. /\ s[n] \in Content /\ OneValue(s[n])
        /\ \A l \in Leaf \ Managed["state"] : s[n][l] = {}
    BY <1>3, <2>1, InContents
  <2> DEFINE w == Want(s[n])
             asks == Managed["state"] \union {"node"}
  <2>3. /\ w \in Content /\ \A l \in Leaf \ {"node"} : w[l] = s[n][l]
        /\ w["node"] \subseteq {Present}
        /\ w["node"] = {} <=> w["action"] = {}
    BY <1>3, <2>2 DEF Content
  <2>4. asks \in SUBSET Leaf /\ asks = Managed["state"] \union {"node"}
    BY <1>3
  <2> HIDE DEF w, asks
  <2>5. OneValue(w) /\ \A l \in Leaf \ asks : w[l] = {}
    BY <1>3, <2>2, <2>3, <2>4 DEF OneValue
  <2>6. FormOK(OwnForm(n, asks, w)) /\ OwnForm(n, asks, w).node = n /\ OwnForm(n, asks, w).from = n
    BY <2>1, <2>3, <2>4, <2>5, OtherFormOK
  <2> QED
    BY <2>6 DEF asks, w
<1> HIDE DEF Option, State, Want
<1> DEFINE forms == {Option(o, n) : n \in NodesOf("options")}
                    \union {State(s[n], n) : n \in NodesOf("state")}
<1>6. ASSUME NEW f \in forms
      PROVE  /\ FormOK(f) /\ f.from = f.node
             /\ \/ f.node[1] = "options" /\ f = Option(o, f.node)
                \/ f.node[1] = "state" /\ f = State(s[f.node], f.node)
  BY <1>4, <1>5 DEF NodesOf
<1>7. Submit(forms)
  BY <1>1
<1> HIDE DEF forms
<1>8. FormsOK(forms) /\ PairsOK(forms)
  BY <1>6 DEF FormsOK, PairsOK
<1> QED
  BY <1>7, <1>8, SubmitStep

\* The system settings and the ntp service.
LEMMA SystemStep ==
  ASSUME TypeInv, DiffInv, StageSystem
  PROVE  TypeInv' /\ DiffInv'
<1>1. PICK asks \in SUBSET Managed["system"], nasks \in SUBSET ({"node"} \union Managed["ntp"]) :
        \E w \in Contents(Domain[page]["system"], asks),
           nw \in Contents(Domain[page]["ntp"], nasks) :
           Submit({OwnForm(n, asks, w) : n \in NodesOf("system")}
                  \union {OwnForm(n, nasks, nw) : n \in NodesOf("ntp")})
  BY DEF StageSystem, OwnForm
<1>2. PICK w \in Contents(Domain[page]["system"], asks),
           nw \in Contents(Domain[page]["ntp"], nasks) :
           Submit({OwnForm(n, asks, w) : n \in NodesOf("system")}
                  \union {OwnForm(n, nasks, nw) : n \in NodesOf("ntp")})
  BY <1>1
<1>3. page \in Pages
  BY DEF TypeInv
<1>4. /\ Domain[page]["system"] \in [Leaf -> SUBSET Value]
      /\ Domain[page]["ntp"] \in [Leaf -> SUBSET Value]
      /\ asks \in SUBSET Leaf /\ nasks \in SUBSET Leaf
      /\ "node" \in Leaf /\ "node" \notin asks
      /\ Domain[page]["ntp"]["node"] \subseteq {Present}
  BY <1>3, PageAssumption, LeafAssumption, KindAssumption DEF Kinds
<1>5. ASSUME NEW n \in NodesOf("system")
      PROVE  /\ FormOK(OwnForm(n, asks, w)) /\ OwnForm(n, asks, w).node = n
             /\ OwnForm(n, asks, w).from = n
  <2>1. n \in Node /\ n[1] = "system"
    BY DEF NodesOf
  <2>2. w \in Content /\ OneValue(w) /\ \A l \in Leaf \ asks : w[l] = {}
    BY <1>4, InContents
  <2>3. w["node"] \subseteq {Present} /\ n[1] \in {"options", "state", "system", "ntp"}
    BY <1>4, <2>1, <2>2
  <2>4. /\ n[1] # "options" /\ n[1] # "state" /\ n[1] # "ntp"
        /\ asks \subseteq Managed["system"] /\ asks \in SUBSET Leaf
    BY <1>4, <2>1
  <2> DEFINE f == OwnForm(n, asks, w)
  <2>5. f.node = n /\ f.from = n /\ f.asks = asks /\ f.want = w /\ f \in Form
    BY <2>1, <2>2, <2>4 DEF Form, OwnForm
  <2>6. n[1] \notin Object
    BY <2>1 DEF Object, Nat44
  <2> HIDE DEF f
  <2>7. FormOK(f)
    BY <2>1, <2>2, <2>3, <2>4, <2>5, <2>6 DEF FormOK, Moved
  <2> QED
    BY <2>5, <2>7 DEF f
<1>6. ASSUME NEW n \in NodesOf("ntp")
      PROVE  /\ FormOK(OwnForm(n, nasks, nw)) /\ OwnForm(n, nasks, nw).node = n
             /\ OwnForm(n, nasks, nw).from = n
  <2>1. n \in Node /\ n[1] = "ntp"
    BY DEF NodesOf
  <2>2. /\ nw \in Content /\ OneValue(nw) /\ \A l \in Leaf \ nasks : nw[l] = {}
        /\ nw["node"] \subseteq {Present}
    <3>1. /\ nw \in Content /\ OneValue(nw) /\ \A l \in Leaf \ nasks : nw[l] = {}
          /\ \A l \in Leaf : nw[l] \subseteq Domain[page]["ntp"][l]
      BY <1>4, InContents, ZenonT(60)
    <3> QED
      BY <1>4, <3>1, Zenon
  <2>3. /\ nasks \in SUBSET Leaf /\ nasks \subseteq Managed["ntp"] \union {"node"}
        /\ n[1] \in {"options", "state", "system", "ntp"}
        /\ n[1] \notin {"options", "state", "system"} \union Object
    BY <1>4, <2>1 DEF Object, Nat44
  <2> DEFINE f == OwnForm(n, nasks, nw)
  <2>4. f.node = n /\ f.from = n /\ f.asks = nasks /\ f.want = nw /\ f \in Form
    BY <2>1, <2>2, <2>3 DEF Form, OwnForm
  <2> HIDE DEF f
  <2>5. FormOK(f)
    BY <2>1, <2>2, <2>3, <2>4 DEF FormOK, Moved
  <2> QED
    BY <2>4, <2>5 DEF f
<1> DEFINE forms == {OwnForm(n, asks, w) : n \in NodesOf("system")}
                    \union {OwnForm(n, nasks, nw) : n \in NodesOf("ntp")}
<1>7. ASSUME NEW f \in forms
      PROVE  /\ FormOK(f) /\ f.from = f.node
             /\ \/ f.node[1] = "system" /\ f = OwnForm(f.node, asks, w)
                \/ f.node[1] = "ntp" /\ f = OwnForm(f.node, nasks, nw)
  BY <1>5, <1>6 DEF NodesOf
<1>8. Submit(forms)
  BY <1>2
<1> HIDE DEF forms
<1>9. FormsOK(forms) /\ PairsOK(forms)
  BY <1>7 DEF FormsOK, PairsOK
<1> QED
  BY <1>8, <1>9, SubmitStep

\* A deletion takes the whole node, or nothing when it is not there.
LEMMA DeleteStep ==
  ASSUME TypeInv, DiffInv, StageDelete
  PROVE  TypeInv' /\ DiffInv'
<1>1. PICK nodes \in SUBSET Node :
        /\ \A m \in nodes : m[1] \in {"vif"} \union Nat44
        /\ drops' = {DeleteNode(m) : m \in nodes}
        /\ goal' = [m \in Node |-> IF m \in nodes THEN Absent ELSE live[m]]
  BY DEF StageDelete, Nat44
<1>2. /\ edits' = {} /\ repeats' = {} /\ asked' = {} /\ plain' = TRUE /\ session = live
      /\ live' = live /\ session' = live /\ page' = page
      /\ Node' = Node /\ Config' = Config /\ Command' = Command /\ Form' = Form
  BY DEF StageDelete, Executed, Node, Config, Command, Form
<1>3. LiveInv
  BY DEF DiffInv, ContentInv, LiveInv
<1>4. \A c \in drops' : \E m \in nodes : c = DeleteNode(m)
  BY <1>1
<1>5. drops' \subseteq Command /\ \A c \in drops' : c.op = "delete"
  BY <1>4, DeleteNodeFields
<1>6. TypeInv'
  BY <1>2, <1>5 DEF TypeInv
<1>7. BatchOK'
  BY <1>2, <1>5 DEF BatchOK, EditsOK
<1>8. \A n \in Node : Outcome'[n] = After(drops', {}, live[n], n)
  BY <1>2 DEF Outcome
<1>9. ASSUME NEW n \in Node PROVE Outcome'[n] = IF n \in nodes THEN Absent ELSE live[n]
  <2>1. live[n] \in Content
    BY <1>3, LiveFacts
  <2>2. CASE n \in nodes
    <3>1. DeleteNode(n) \in drops'
      BY <1>1, <2>2
    <3> QED
      BY <1>8, <2>1, <2>2, <3>1, NodeGone
  <2>3. CASE n \notin nodes
    <3>1. \A c : c.node = n => (c \in drops' <=> c \in {})
      BY <1>4, <2>3, DeleteNodeFields
    <3>2. After(drops', {}, live[n], n) = After({}, {}, live[n], n)
      BY <3>1, AfterLocal
    <3> QED
      BY <1>8, <2>1, <2>3, <3>2, AfterNothing
  <2> QED
    BY <2>2, <2>3
<1>10. ASSUME NEW n \in Node
       PROVE  /\ Valid(n[1], live[n]) /\ Sound(n[1], live[n])
              /\ Valid(n[1], Outcome'[n]) /\ Sound(n[1], Outcome'[n])
              /\ goal'[n] = Outcome'[n]
  <2>1. Valid(n[1], live[n]) /\ Sound(n[1], live[n])
    BY <1>3 DEF LiveInv
  <2>2. n \in nodes => n[1] \notin {"options", "system"}
    BY <1>1 DEF Nat44
  <2>3. Sound(n[1], Absent) /\ (n \in nodes => Valid(n[1], Absent))
    BY <2>2, AbsentFacts
  <2>4. goal'[n] = IF n \in nodes THEN Absent ELSE live[n]
    BY <1>1
  <2> QED
    BY <1>9, <2>1, <2>3, <2>4
<1>11. ContentInv'
  BY <1>2, <1>10 DEF ContentInv, Sound
<1>12. FormInv'
  BY <1>2, <1>10 DEF FormInv
<1>13. AgainInv' /\ MatterInv' /\ PairInv' /\ RepeatInv'
  BY <1>2 DEF AgainInv, MatterInv, PairInv, RepeatInv
<1> QED
  BY <1>6, <1>7, <1>11, <1>12, <1>13 DEF DiffInv

\* What a device can hold at the start.
LEMMA InitInv ==
  Init => TypeInv /\ DiffInv
<1> SUFFICES ASSUME Init PROVE TypeInv /\ DiffInv
  OBVIOUS
<1>1. /\ page \in Pages /\ session = live /\ drops = {} /\ edits = {} /\ asked = {}
      /\ repeats = {}
      /\ goal = live /\ plain = TRUE
      /\ live \in [Node -> UNION {LiveContents[page][n[1]] : n \in Node}]
      /\ \A n \in Node : live[n] \in LiveContents[page][n[1]]
  BY DEF Init
<1>2. ASSUME NEW n \in Node
      PROVE  live[n] \in Content /\ Valid(n[1], live[n]) /\ Sound(n[1], live[n])
  <2> DEFINE k == n[1]
             leaves == {"node"} \union Managed[k] \union Unmanaged[k]
             values == Domain[page][k]
  <2>1. k \in Kinds
    BY <1>1, NodeKind
  <2>2. live[n] \in Contents(values, leaves) /\ Valid(k, live[n])
    <3>1. k \in {m[1] : m \in Place[page]}
      BY DEF Node
    <3> QED
      BY <1>1, <3>1 DEF LiveContents
  <2>3. leaves \in SUBSET Leaf /\ values \in [Leaf -> SUBSET Value]
    BY <1>1, <2>1, LeafAssumption, PageAssumption
  <2>4. values["node"] \subseteq {Present} /\ (k \notin Nat44 => leaves \intersect Iface = {})
    BY <1>1, <2>1, KindAssumption DEF Iface
  <2> HIDE DEF leaves, values, k
  <2>5. /\ live[n] \in Content /\ OneValue(live[n])
        /\ \A l \in Leaf : live[n][l] \subseteq values[l]
        /\ \A l \in Leaf \ leaves : live[n][l] = {}
    BY <2>2, <2>3, InContents
  <2>6. live[n]["node"] \subseteq {Present}
    BY <2>4, <2>5, IfaceLeaves
  <2>7. k \notin Nat44 => \A l \in Iface : live[n][l] = {}
    BY <2>4, <2>5, IfaceLeaves
  <2> QED
    BY <2>2, <2>5, <2>6, <2>7 DEF Sound, k
<1>3. live \in Config
  BY <1>1, <1>2 DEF Config
<1>4. TypeInv
  BY <1>1, <1>3 DEF TypeInv
<1>5. Outcome = live
  BY <1>1, <1>4, OutcomeIsSession
<1>6. ContentInv
  BY <1>1, <1>2, <1>5 DEF ContentInv, Sound
<1> QED
  BY <1>1, <1>2, <1>4, <1>5, <1>6
     DEF DiffInv, BatchOK, EditsOK, FormInv, AgainInv, MatterInv, PairInv, RepeatInv

\* The invariant holds always.
LEMMA DiffInvariant ==
  Spec => [](TypeInv /\ DiffInv)
<1>1. TypeInv /\ DiffInv /\ [Next]_vars => (TypeInv /\ DiffInv)'
  <2> SUFFICES ASSUME TypeInv, DiffInv, [Next]_vars PROVE TypeInv' /\ DiffInv'
    OBVIOUS
  <2>1. CASE StageEthernet \/ StageVlan \/ StageNat44
    BY <2>1, ObjectStep
  <2>2. CASE StageStatic
    BY <2>2, StaticStep
  <2>3. CASE StageGlobalOptions
    BY <2>3, OptionsStep
  <2>4. CASE StageSystem
    BY <2>4, SystemStep
  <2>5. CASE StageDelete
    BY <2>5, DeleteStep
  <2>6. CASE Execute
    BY <2>6, ExecuteStep
  <2>7. CASE EndSession
    BY <2>7, EndStep
  <2>8. CASE UNCHANGED vars
    <3>1. UNCHANGED <<page, live, session, drops, edits, repeats, asked, goal, plain>>
      BY <2>8 DEF vars
    <3>2. Node' = Node /\ Config' = Config /\ Command' = Command /\ Form' = Form
      BY <3>1 DEF Node, Config, Command, Form
    <3>3. TypeInv'
      BY <3>1, <3>2 DEF TypeInv
    <3>4. Outcome' = Outcome
      BY <3>1, <3>2 DEF Outcome
    <3>5. RepeatInv'
      BY <3>1 DEF DiffInv, RepeatInv
    <3>6. BatchOK' /\ MatterInv'
      BY <3>1 DEF DiffInv, BatchOK, EditsOK, MatterInv, Matters
    <3>7. ContentInv' /\ FormInv' /\ AgainInv' /\ PairInv'
      BY <3>1, <3>2, <3>4 DEF DiffInv, ContentInv, FormInv, AgainInv, PairInv
    <3> QED
      BY <3>3, <3>5, <3>6, <3>7 DEF DiffInv
  <2> QED
    BY <2>1, <2>2, <2>3, <2>4, <2>5, <2>6, <2>7, <2>8 DEF Next
<1> QED
  BY InitInv, <1>1, PTL DEF Spec

-----------------------------------------------------------------------------
(***************************************************************************)
(* The theorems                                                            *)
(***************************************************************************)

\* When a batch has been executed, the outcome is the live configuration.
LEMMA ExecutedOutcome ==
  TypeInv /\ Executed => Outcome = live
BY OutcomeIsSession DEF Executed

\* Executing the commands of a request, in any order the diff allows, gives the
\* configuration the request asked for, and nothing else changes.
THEOREM DiffsReachTheForm ==
  Spec => []DiffReachesForm
<1>1. TypeInv /\ DiffInv => DiffReachesForm
  BY ExecutedOutcome DEF DiffInv, FormInv, DiffReachesForm
<1> QED
  BY DiffInvariant, <1>1, PTL

\* Every command that a diff stages changes the configuration when its turn comes,
\* but for the second and later sets of a value that a form lists more than once:
\* these change nothing.
THEOREM CommandsMatter ==
  Spec => []EveryCommandMatters
<1>1. TypeInv /\ DiffInv => EveryCommandMatters
  <2> SUFFICES ASSUME TypeInv, DiffInv, plain, asked # {}, NEW c \in drops \union edits,
                      Exec(c, session) = session
               PROVE  FALSE
    BY RepeatIsIdle DEF EveryCommandMatters, DiffInv
  <2>1. /\ c \in Command /\ session \in Config /\ c.node \in Node /\ c.leaves \subseteq Leaf
        /\ BatchOK /\ Matters /\ c.vals \subseteq Value
    BY DEF TypeInv, DiffInv, MatterInv, Command
  <2>2. \A l \in Leaf : session[c.node][l] =
          IF c.op = "set"
          THEN IF l = "node" THEN {Present}
               ELSE IF l \notin c.leaves THEN session[c.node][l]
               ELSE IF l \in Multi THEN session[c.node][l] \union c.vals ELSE c.vals
          ELSE IF l \in c.leaves THEN session[c.node][l] \ c.vals ELSE session[c.node][l]
    <3>1. c \in Command /\ session \in Config
      BY <2>1
    <3>2. \A l \in Leaf : Exec(c, session)[c.node][l] =
            IF c.op = "set"
            THEN IF l = "node" THEN {Present}
                 ELSE IF l \notin c.leaves THEN session[c.node][l]
                 ELSE IF l \in Multi THEN session[c.node][l] \union c.vals ELSE c.vals
            ELSE IF l \in c.leaves THEN session[c.node][l] \ c.vals ELSE session[c.node][l]
      BY <3>1, ExecLeaf
    <3> QED
      BY <3>2
  <2>3. CASE c.op = "delete"
    <3>1. \E l \in c.leaves : session[c.node][l] \intersect c.vals # {}
      <4>1. CASE c \in drops
        BY <2>1, <4>1 DEF Matters
      <4>2. CASE c \in edits
        <5>1. PICK l \in Leaf : c.leaves = {l}
          BY <2>1, <4>2 DEF BatchOK, EditsOK
        <5> QED
          BY <2>1, <2>3, <4>2, <5>1 DEF Matters
      <4> QED
        BY <4>1, <4>2
    <3> QED
      BY <2>1, <2>2, <2>3, <3>1
  <2>4. CASE c.op = "set"
    <3>1. c \in edits
      BY <2>1, <2>4 DEF BatchOK
    <3>2. PICK l \in Leaf : /\ c.leaves = {l}
                            /\ \E v \in Value : c.vals = {v}
                            /\ l = "node" => c.vals = {Present}
      BY <2>1, <2>4, <3>1 DEF BatchOK, EditsOK
    <3>3. session[c.node][l] \intersect c.vals = {}
      BY <2>1, <2>4, <3>1, <3>2 DEF Matters
    <3> QED
      BY <2>2, <2>4, <3>2, <3>3
  <2> QED
    BY <2>1, <2>3, <2>4 DEF Command
<1> QED
  BY DiffInvariant, <1>1, PTL

\* A form that is submitted again finds the configuration as it asks.
THEOREM RestagingFindsNothing ==
  Spec => []RestagingIsEmpty
<1>1. TypeInv /\ DiffInv => RestagingIsEmpty
  BY ExecutedOutcome DEF DiffInv, AgainInv, RestagingIsEmpty
<1> QED
  BY DiffInvariant, <1>1, PTL

\* The rules of a mapping that was saved are listed as that mapping.
THEOREM MappingsAreListed ==
  Spec => []StaticIsListed
<1>1. TypeInv /\ DiffInv => StaticIsListed
  BY ExecutedOutcome DEF DiffInv, PairInv, StaticIsListed
<1> QED
  BY DiffInvariant, <1>1, PTL

=============================================================================
