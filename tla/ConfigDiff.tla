----------------------------- MODULE ConfigDiff -----------------------------
(***************************************************************************)
(* The diffs that turn a submitted form into set and delete commands       *)
(* (diff_system, diff_ethernet, diff_vlan, diff_nat44, static_pair and     *)
(* diff_global_options) and their execution by the device, one command     *)
(* after the other.                                                        *)
(*                                                                         *)
(* A node is what a form edits: a NIC, a vif, a source or destination NAT  *)
(* rule, the firewall's global options, one of its connection states, the  *)
(* system settings, the ntp service.  It is a pair <<kind, id>>.  The      *)
(* configuration gives for every node and leaf the set of its values.      *)
(* Leaf "node" says that the node is there, a leaf without a value (like   *)
(* `disable`) has the value Present, only leaves in Multi have several     *)
(* values.  Values are trimmed and not empty: "" is the empty set.         *)
(***************************************************************************)

CONSTANTS
  Leaf,       \* the leaves of all kinds
  Value,      \* values of leaves, Present among them
  Present,    \* the value of a leaf without a value
  Multi,      \* leaves with any number of values
  SetOnly,    \* leaves that an empty field leaves alone: host-name, time-zone
  Managed,    \* per kind: the leaves its form edits
  Unmanaged,  \* per kind: leaves no form edits
  Pages,      \* pages of the frontend that edit a configuration
  Forms,      \* per page: the forms it has
  Place,      \* per page: its nodes, pairs <<kind, id>>
  Domain      \* per page, kind and leaf: the values it is given

Kinds == {"nic", "vif", "source", "destination", "options", "state", "system", "ntp"}
Nat44 == {"source", "destination"}
Iface == {"name", "group", "bare"}

ASSUME PageAssumption ==
  /\ \A p \in Pages : Place[p] \subseteq Kinds \X {n[2] : n \in Place[p]}
  /\ Domain \in [Pages -> [Kinds -> [Leaf -> SUBSET Value]]]
  \* a mapping is a source and a destination rule of the same number
  /\ \A p \in Pages : "static" \in Forms[p] =>
       \A n \in Place[p] : n[1] = "source" => <<"destination", n[2]>> \in Place[p]
ASSUME LeafAssumption ==
  /\ {"node", "name", "group", "bare", "action", "server", "disable",
      "source-address", "destination-address", "translation-address"} \subseteq Leaf
  /\ Managed \in [Kinds -> SUBSET Leaf]
  /\ Unmanaged \in [Kinds -> SUBSET Leaf]
  /\ Present \in Value
ASSUME SingleAssumption ==
  Multi \intersect ({"node", "source-address", "destination-address", "translation-address",
                     "disable"} \union Iface) = {}
\* Only a NAT rule has an interface, and its form gives it by name or group.
ASSUME KindAssumption ==
  /\ \A k \in Kinds \ Nat44 : (Managed[k] \union Unmanaged[k]) \intersect Iface = {}
  /\ \A k \in Nat44 : /\ Managed[k] \intersect Iface = {"name", "group"}
                      /\ {"source-address", "destination-address", "translation-address",
                          "disable"} \subseteq Managed[k]
  /\ \A k \in Kinds : "node" \notin Managed[k] \union Unmanaged[k]
  /\ \A k \in Kinds \ {"system"} : Managed[k] \intersect SetOnly = {}
  /\ "action" \in Managed["state"]
  /\ \A p \in Pages, k \in Kinds : Domain[p][k]["node"] \subseteq {Present}

VARIABLES
  page,    \* the page the operator works on
  live,    \* the device's configuration
  session, \* the candidate of the session that executes a batch
  drops,   \* commands that come before an edit of the same place
  edits,   \* the other commands; which comes first is left open
  repeats, \* set commands of edits that the batch holds once more
  asked,   \* the forms, one for each node, of the last request
  goal,    \* history: the configuration that the last request asks for
  plain    \* history: the request meets the assumptions below

vars == <<page, live, session, drops, edits, repeats, asked, goal, plain>>

Content == [Leaf -> SUBSET Value]
Node == Place[page]
Config == [Node -> Content]
Absent == [l \in Leaf |-> {}]
NodesOf(kind) == {n \in Node : n[1] = kind}

\* A form of one node: `from` is the node it edits, which a move or a renumber
\* leaves behind; only the leaves in `asks` are part of the request.
Form == [node : Node, from : Node, asks : SUBSET Leaf, want : Content]
Moved(f) == f.from # f.node

\* A command sets one value of one leaf or deletes values of leaves.
Command == [op : {"set", "delete"}, node : Node, leaves : SUBSET Leaf, vals : SUBSET Value]
Set(n, l, v) == [op |-> "set", node |-> n, leaves |-> {l}, vals |-> {v}]
Delete(n, leaves, vals) == [op |-> "delete", node |-> n, leaves |-> leaves, vals |-> vals]
DeleteNode(n) == Delete(n, Leaf, Value)
Create(n) == Set(n, "node", Present)

-----------------------------------------------------------------------------
(***************************************************************************)
(* The device                                                              *)
(***************************************************************************)

\* `set` creates the node; it replaces the value of a leaf that has only one.
SetIn(c, content) ==
  [l \in Leaf |-> IF l = "node" THEN {Present}
                  ELSE IF l \notin c.leaves THEN content[l]
                  ELSE IF l \in Multi THEN content[l] \union c.vals
                  ELSE c.vals]
DeleteIn(c, content) ==
  [l \in Leaf |-> IF l \in c.leaves THEN content[l] \ c.vals ELSE content[l]]
Exec(c, config) ==
  [config EXCEPT ![c.node] = IF c.op = "set" THEN SetIn(c, @) ELSE DeleteIn(c, @)]

-----------------------------------------------------------------------------
(***************************************************************************)
(* The diffs.  Each gives the commands in two sets.                        *)
(***************************************************************************)

\* One leaf with a single value, or a flag: set when the desired value differs,
\* delete when it should be absent but the device has it.
LeafDiff(n, l, have, want) ==
  IF want = have THEN {}
  ELSE IF want # {} THEN {Set(n, l, v) : v \in want}
  ELSE {Delete(n, {l}, Value)}

\* One leaf with several values.  The code walks the list of the form as it is: a
\* value that is new and listed twice is set twice (Repeatable).
ValueDiff(n, l, have, want) ==
  {Set(n, l, v) : v \in want \ have} \union {Delete(n, {l}, {v}) : v \in have \ want}

Repeatable(commands) == {c \in commands : c.op = "set" /\ c.leaves \subseteq Multi}

LeavesDiff(n, leaves, have, want) ==
  UNION {IF l \in Multi THEN ValueDiff(n, l, have[l], want[l])
                        ELSE LeafDiff(n, l, have[l], want[l]) : l \in leaves}

\* The interface of a NAT rule and how it is given: `<key> name`, `<key> group`,
\* or the bare value of 1.3, which counts as a name.
IfaceOf(content) ==
  IF content["name"] # {} THEN [kind |-> "name", vals |-> content["name"]]
  ELSE IF content["group"] # {} THEN [kind |-> "group", vals |-> content["group"]]
  ELSE [kind |-> "name", vals |-> content["bare"]]

\* Mutant: a switch between name and group leaves the old form in place.
IfaceKeepsOldForm(n, have, want) == {}

\* Clearing the interface, or giving it another way, first removes `<key>`.
IfaceDrop(n, have, want) ==
  IF IfaceOf(have) # IfaceOf(want) /\ IfaceOf(have).vals # {}
  THEN {Delete(n, Iface, Value)} ELSE {}
IfaceSet(n, have, want) ==
  IF IfaceOf(have) # IfaceOf(want)
  THEN {Set(n, IfaceOf(want).kind, v) : v \in IfaceOf(want).vals} ELSE {}

\* Mutant: a move is compared with the old node, which it deletes.
MoveDiffsOld(f, config) ==
  LET have == config[f.from]
      sets == LeavesDiff(f.node, Managed[f.node[1]] \ Iface, have, f.want)
                \union IfaceSet(f.node, have, f.want)
  IN [drops |-> (IF Moved(f) THEN {DeleteNode(f.from)} ELSE {})
                  \union IfaceDrop(f.node, have, f.want),
      edits |-> IF have["node"] = {} /\ \A c \in sets : c.op # "set"
                THEN sets \union {Create(f.node)} ELSE sets]

\* A NIC, a vif or a NAT rule.  After a move the diff is taken against an empty
\* node.  A node that nothing else creates is created by itself.
ObjectDiff(f, config) ==
  LET have == IF Moved(f) THEN Absent ELSE config[f.node]
      sets == LeavesDiff(f.node, Managed[f.node[1]] \ Iface, have, f.want)
                \union IfaceSet(f.node, have, f.want)
  IN [drops |-> (IF Moved(f) THEN {DeleteNode(f.from)} ELSE {})
                  \union IfaceDrop(f.node, have, f.want),
      edits |-> IF have["node"] = {} /\ \A c \in sets : c.op # "set"
                THEN sets \union {Create(f.node)} ELSE sets]

\* Firewall global options: every key by itself.
OptionsDiff(f, config) ==
  [drops |-> {}, edits |-> LeavesDiff(f.node, Managed["options"], config[f.node], f.want)]

\* Mutant: a state without an action is removed although there is none.
StateAlwaysUnset(f, config) ==
  IF f.want["action"] = {} THEN [drops |-> {DeleteNode(f.node)}, edits |-> {}]
  ELSE [drops |-> {}, edits |-> LeavesDiff(f.node, Managed["state"], config[f.node], f.want)]

\* A connection state: without an action the whole node goes, and nothing is
\* staged for a state that has none on the device.
StateDiff(f, config) ==
  IF f.want["action"] = {}
  THEN [drops |-> IF config[f.node]["action"] # {} THEN {DeleteNode(f.node)} ELSE {},
        edits |-> {}]
  ELSE [drops |-> {}, edits |-> LeavesDiff(f.node, Managed["state"], config[f.node], f.want)]

\* The system settings: absent fields, and empty ones that cannot be removed, are
\* left alone.
SystemDiff(f, config) ==
  LET leaves == {l \in f.asks : f.want[l] # {} \/ l \notin SetOnly}
  IN [drops |-> {}, edits |-> LeavesDiff(f.node, leaves, config[f.node], f.want)]

\* Mutant: the ntp service is removed although there is none.
NtpAlwaysDropped(f, config) ==
  IF "node" \in f.asks /\ f.want["node"] = {}
  THEN [drops |-> {DeleteNode(f.node)}, edits |-> {}]
  ELSE [drops |-> {},
        edits |-> LeavesDiff(f.node, f.asks \ {"node"}, config[f.node], f.want)]

\* The ntp service: switched off, the node goes if it is there; else only the
\* servers are compared.
NtpDiff(f, config) ==
  IF "node" \in f.asks /\ f.want["node"] = {}
  THEN [drops |-> IF config[f.node]["node"] # {} THEN {DeleteNode(f.node)} ELSE {},
        edits |-> {}]
  ELSE [drops |-> {},
        edits |-> LeavesDiff(f.node, f.asks \ {"node"}, config[f.node], f.want)]

NodeDiff(f, config) ==
  CASE f.node[1] = "options" -> OptionsDiff(f, config)
    [] f.node[1] = "state" -> StateDiff(f, config)
    [] f.node[1] = "system" -> SystemDiff(f, config)
    [] f.node[1] = "ntp" -> NtpDiff(f, config)
    [] OTHER -> ObjectDiff(f, config)

-----------------------------------------------------------------------------
(***************************************************************************)
(* What a request asks for, said without the diff                          *)
(***************************************************************************)

\* A NIC, a vif, a rule, an enabled ntp service is there; a state without an
\* action is not; leaves the request does not mention stay.
Effective(f, l) ==
  /\ l \in f.asks
  /\ f.want[l] # {} \/ l \notin SetOnly
Wanted(f, content) ==
  IF "node" \in f.asks /\ f.want["node"] = {} THEN Absent
  ELSE [l \in Leaf |->
          IF l = "node" /\ \E k \in f.asks : f.want[k] # {} THEN {Present}
          ELSE IF l = "bare" /\ Iface \intersect f.asks # {} THEN {}
          ELSE IF Effective(f, l) THEN f.want[l] ELSE content[l]]
Goal(forms, config) ==
  [n \in Node |->
     IF \E f \in forms : f.node = n
     THEN LET f == CHOOSE g \in forms : g.node = n
          IN Wanted(f, IF Moved(f) THEN Absent ELSE config[n])
     ELSE IF \E f \in forms : f.from = n THEN Absent
     ELSE config[n]]

\* What the pages show of a node: a bare interface is a name, and a state
\* without an action is not set.
Shown(n, content) ==
  IF n[1] = "state" /\ content["action"] = {} THEN Absent
  ELSE IF n[1] \in Nat44
  THEN [content EXCEPT !["bare"] = {},
          !["name"] = IF IfaceOf(content).kind = "name" THEN IfaceOf(content).vals ELSE @]
  ELSE content

\* split_static: the rules that are listed as 1-to-1 mappings.
IsStatic(config, source, destination) ==
  LET s == config[source]
      d == config[destination]
  IN /\ s["source-address"] # {} /\ s["translation-address"] # {}
     /\ d["destination-address"] = s["translation-address"]
     /\ d["translation-address"] = s["source-address"]
IsEnabled(content) == content["disable"] = {}

-----------------------------------------------------------------------------
(***************************************************************************)
(* The requests                                                            *)
(***************************************************************************)

Choices(values, l) ==
  IF l \in Multi THEN SUBSET values[l] ELSE {{}} \union {{v} : v \in values[l]}

\* All contents with values for these leaves only.
Contents(values, leaves) ==
  LET used == {l \in leaves : values[l] # {}}
      all == [used -> UNION {Choices(values, l) : l \in used}]
  IN {[l \in Leaf |-> IF l \in used THEN c[l] ELSE {}] :
        c \in {x \in all : \A l \in used : x[l] \in Choices(values, l)}}

\* At most one way to give an interface; leaves only where the node is.
Valid(kind, content) ==
  /\ content["node"] = {} => content = Absent
  /\ \A k, l \in Iface : content[k] # {} /\ content[l] # {} => k = l
  /\ kind \in {"options", "system"} => content["node"] # {}
LiveContents ==
  [p \in Pages |->
     [k \in {n[1] : n \in Place[p]} |->
        {c \in Contents(Domain[p][k], {"node"} \union Managed[k] \union Unmanaged[k]) :
           Valid(k, c)}]]

Init ==
  /\ page \in Pages
  /\ live \in {c \in [Node -> UNION {LiveContents[page][n[1]] : n \in Node}] :
                 \A n \in Node : c[n] \in LiveContents[page][n[1]]}
  /\ session = live
  /\ drops = {}
  /\ edits = {}
  /\ repeats = {}
  /\ asked = {}
  /\ goal = live
  /\ plain = TRUE

\* A move goes from a node that is there to one that is not, and ntp is switched
\* on together with a server or on a device that has it on.
MovesToNew(forms) ==
  \A f \in forms : Moved(f) => live[f.from] # Absent /\ live[f.node] = Absent
SwitchesWithServer(forms) ==
  \A f \in forms : f.node[1] = "ntp" /\ "node" \in f.asks /\ f.want["node"] # {} =>
    live[f.node]["node"] # {} \/ ("server" \in f.asks /\ f.want["server"] # {})

\* Nothing is left of the last request.
Executed == drops \union edits \union repeats = {} /\ session = live

\* The handler reads the live configuration and stages the diff; it is committed
\* before the next request.  Any values of a list may be given more than once.
Submit(forms) ==
  /\ Executed
  /\ drops' = UNION {NodeDiff(f, live).drops : f \in forms}
  /\ edits' = UNION {NodeDiff(f, live).edits : f \in forms}
  /\ repeats' \in SUBSET Repeatable(edits')
  /\ asked' = forms
  /\ goal' = Goal(forms, live)
  /\ plain' = (MovesToNew(forms) /\ SwitchesWithServer(forms))
  /\ UNCHANGED <<page, live, session>>

\* What the form of a NIC, a vif or a NAT rule can ask for.
ObjectForms ==
  [p \in Pages |->
     UNION {{[node |-> n, from |-> m, asks |-> Managed[n[1]] \union {"node"},
              want |-> [c EXCEPT !["node"] = {Present}]] :
                c \in {x \in Contents(Domain[p][n[1]], Managed[n[1]]) :
                         x["name"] = {} \/ x["group"] = {}},
                m \in {k \in Place[p] : k[1] = n[1]}} : n \in Place[p]}]

StageEthernet ==
  /\ "ethernet" \in Forms[page]
  /\ \E f \in ObjectForms[page] : f.node[1] = "nic" /\ ~Moved(f) /\ Submit({f})

StageVlan ==
  /\ "vlan" \in Forms[page]
  /\ \E f \in ObjectForms[page] : f.node[1] = "vif" /\ Submit({f})

StageNat44 ==
  /\ "nat44" \in Forms[page]
  /\ \E f \in ObjectForms[page] : f.node[1] \in Nat44 /\ Submit({f})

\* One half of a 1-to-1 mapping: all leaves that it does not need are absent.
StaticHalf(section, rule, from, match, addr, to, name, disable) ==
  [node |-> <<section, rule>>, from |-> <<section, from>>,
   asks |-> Managed[section] \union {"node"},
   want |-> [Absent EXCEPT !["node"] = {Present}, !["name"] = name, !["disable"] = disable,
                           ![match] = {addr}, !["translation-address"] = {to}]]

\* The source rule maps internal to external, the destination rule mirrors it.
StaticPair(rule, from, internal, external, name, disable) ==
  {StaticHalf("source", rule, from, "source-address", internal, external, name, disable),
   StaticHalf("destination", rule, from, "destination-address", external, internal, name, disable)}

\* The page edits a mapping that it lists, or creates one; it refuses the number
\* of another mapping, but not that of a rule that is not part of a mapping.
StageStatic ==
  /\ "static" \in Forms[page]
  /\ \E rule, from \in {n[2] : n \in NodesOf("source")} :
     /\ from # rule => /\ IsStatic(live, <<"source", from>>, <<"destination", from>>)
                       /\ ~IsStatic(live, <<"source", rule>>, <<"destination", rule>>)
     /\ \E internal \in Domain[page]["source"]["source-address"],
          external \in Domain[page]["destination"]["destination-address"],
          name \in Choices(Domain[page]["source"], "name"),
          disable \in Choices(Domain[page]["source"], "disable") :
          Submit(StaticPair(rule, from, internal, external, name, disable))

StageGlobalOptions ==
  /\ "firewall" \in Forms[page]
  /\ \E o \in Contents(Domain[page]["options"], Managed["options"]) :
       \E s \in [NodesOf("state") -> Contents(Domain[page]["state"], Managed["state"])] :
         Submit(
           {[node |-> n, from |-> n, asks |-> Managed["options"], want |-> o] :
              n \in NodesOf("options")}
           \union
           {[node |-> n, from |-> n, asks |-> Managed["state"] \union {"node"},
             want |-> [s[n] EXCEPT !["node"] =
                         IF s[n]["action"] = {} THEN {} ELSE {Present}]] :
              n \in NodesOf("state")})

StageSystem ==
  /\ "system" \in Forms[page]
  /\ \E asks \in SUBSET Managed["system"] : \E w \in Contents(Domain[page]["system"], asks) :
       \E nasks \in SUBSET ({"node"} \union Managed["ntp"]) :
       \E nw \in Contents(Domain[page]["ntp"], nasks) :
         Submit(
           {[node |-> n, from |-> n, asks |-> asks, want |-> w] : n \in NodesOf("system")}
           \union
           {[node |-> n, from |-> n, asks |-> nasks, want |-> nw] : n \in NodesOf("ntp")})

\* Deletion of a vif, a NAT rule or both rules of a mapping: the device is not
\* asked, so the node need not be there.
StageDelete ==
  /\ "delete" \in Forms[page]
  /\ Executed
  /\ \E n \in Node :
       /\ n[1] \in {"vif"} \union Nat44
       /\ \E nodes \in {{n}, {m \in Node : {n[1], m[1]} \subseteq Nat44 /\ m[2] = n[2]}} \ {{}} :
            /\ drops' = {DeleteNode(m) : m \in nodes}
            /\ goal' = [m \in Node |-> IF m \in nodes THEN Absent ELSE live[m]]
  /\ asked' = {}
  /\ plain' = TRUE
  /\ UNCHANGED <<page, live, session, edits, repeats>>

\* The device executes the batch in a session of its own.  Of equal commands the
\* one that comes first is the one in edits.
Execute ==
  /\ \/ \E c \in drops :
          /\ session' = Exec(c, session)
          /\ drops' = drops \ {c}
          /\ UNCHANGED <<edits, repeats>>
     \/ /\ drops = {}
        /\ \E c \in edits :
             /\ session' = Exec(c, session)
             /\ edits' = edits \ {c}
             /\ UNCHANGED <<drops, repeats>>
     \/ /\ drops = {}
        /\ \E c \in repeats \ edits :
             /\ session' = Exec(c, session)
             /\ repeats' = repeats \ {c}
             /\ UNCHANGED <<drops, edits>>
  /\ UNCHANGED <<page, live, asked, goal, plain>>

\* The session is committed, or refused as a whole when a rule has got its
\* interface in two ways.
EndSession ==
  /\ drops \union edits \union repeats = {}
  /\ session # live
  /\ IF \A n \in Node : Valid(n[1], session[n])
     THEN /\ live' = session
          /\ UNCHANGED <<session, asked, goal, plain>>
     ELSE /\ session' = live
          /\ asked' = {}
          /\ UNCHANGED <<live, goal, plain>>
  /\ UNCHANGED <<page, drops, edits, repeats>>

Next ==
  \/ StageEthernet \/ StageVlan \/ StageNat44 \/ StageStatic
  \/ StageGlobalOptions \/ StageSystem \/ StageDelete
  \/ Execute \/ EndSession

Spec == Init /\ [][Next]_vars

-----------------------------------------------------------------------------
(***************************************************************************)
(* Properties                                                              *)
(***************************************************************************)

\* Executing the diff turns the live configuration into what the forms ask for,
\* in every order of the commands that the two sets allow, and leaves everything
\* else, also the leaves no form edits, as it was.
DiffReachesForm ==
  Executed /\ plain => \A n \in Node : Shown(n, live[n]) = Shown(n, goal[n])

\* The diff does not name what is already so, nor delete what is not there: each
\* command that is still to be executed changes the configuration, whatever of the
\* batch comes before it.  Only a further set of a value that the form lists more
\* than once finds it there already, and then it changes nothing at all.
EveryCommandMatters ==
  /\ plain /\ asked # {} => \A c \in drops \union edits : Exec(c, session) # session
  /\ \A c \in repeats \ edits : Exec(c, session) = session

\* Submitting the same form again after its commit stages nothing.
RestagingIsEmpty ==
  Executed /\ plain => \A f \in asked : ~Moved(f) =>
    NodeDiff(f, live) = [drops |-> {}, edits |-> {}]

\* The two rules of a 1-to-1 mapping are recognised as that mapping when the NAT
\* page is read back, also when it has been renumbered onto existing rules; unless
\* one of those was disabled, the mapping is enabled as the form says.
StaticIsListed ==
  Executed => \A f, g \in asked : f.node[1] = "source" /\ g.node[1] = "destination" =>
    /\ IsStatic(live, f.node, g.node)
    /\ live[f.node]["source-address"] = f.want["source-address"]
    /\ live[f.node]["translation-address"] = f.want["translation-address"]
    /\ plain => (IsEnabled(live[f.node]) /\ IsEnabled(live[g.node])) = IsEnabled(f.want)


=============================================================================
