------------------------- MODULE BranchChat_proofs --------------------------
(****************************************************************************)
(* The conversation of a branch for any number of attempts, restarts and   *)
(* seeds: it tells of the branch's own lineage only, and ends with what the *)
(* last attempt made.  By the inductive invariant IInv.                    *)
(****************************************************************************)
EXTENDS BranchChat, WellFoundedInduction, TLAPS

Node == [parent : Nat, code : Nat, seed : SeedRoots, attempt : Nat]

(* TypeOK, and the types of what it leaves open. *)
Typed ==
  /\ TypeOK
  /\ nodes \in Seq(Node)
  /\ code \in Nat /\ attempts \in Nat /\ restarts \in Nat

(* An attempt is numbered above those before it, and so is what it may     *)
(* propose; the one under way has no node yet.                             *)
Numbered ==
  /\ \A n \in DOMAIN nodes : nodes[n].attempt <= attempts
  /\ pc = "compiling" => \A n \in DOMAIN nodes : nodes[n].attempt < attempts
  /\ \A i \in AssistantTurns : 1 <= chat[i].about /\ chat[i].about <= attempts
  /\ \A n \in DOMAIN nodes : nodes[n].code <= Proposed(attempts)

(* While a step compiles, the conversation ends with the reply it compiles. *)
Answered ==
  pc = "compiling" =>
    LET m == Len(chat) IN
    /\ m >= 1 /\ m \in AssistantTurns
    /\ chat[m].about = attempts
    /\ code <= Proposed(attempts)
    /\ code = Proposed(attempts) => chat[m].code = code
    /\ \A i \in AssistantTurns : i < m => chat[i].about < attempts

(* If the last attempt of the conversation made a node of the code it      *)
(* proposed, its reply shows that code.                                    *)
ShownAsMade ==
  \A i \in AssistantTurns : \A n \in DOMAIN nodes :
    /\ IsLast(i, AssistantTurns)
    /\ nodes[n].attempt = chat[i].about
    /\ nodes[n].code = Proposed(chat[i].about)
    => chat[i].code = nodes[n].code

(* If the last attempt of the conversation made a node, the branch stands  *)
(* on a node of that attempt.                                              *)
StandsOnLast ==
  \A i \in AssistantTurns :
    IsLast(i, AssistantTurns) /\ (\E n \in DOMAIN nodes : nodes[n].attempt = chat[i].about)
      => nodes[head].attempt = chat[i].about

(* When the model is asked, the other replies have been elided and the     *)
(* feedback is about the node the branch stands on.                        *)
Asked ==
  pc = "asking" =>
    /\ \A i \in AssistantTurns : ~ IsLast(i, AssistantTurns) => chat[i].code = NoCode
    /\ chat # << >>
    /\ Last(chat).kind = "feedback" => Last(chat).about = head

IInv ==
  /\ Typed /\ Numbered /\ Answered /\ ShownAsMade /\ StandsOnLast /\ Asked
  /\ ConversationFollowsLineage

-----------------------------------------------------------------------------
(* Lineages. *)

(* A list of nodes whose parents are older. *)
Linked(ns) == ns \in Seq(Node) /\ \A n \in DOMAIN ns : ns[n].parent \in 0 .. n - 1

(* A set of numbers has a least one.                                       *)
LEMMA LeastNumber ==
  ASSUME NEW T \in SUBSET Nat, T # {}
  PROVE  \E m \in T : \A k \in T : m <= k
<1> DEFINE R == OpToRel(<, Nat)
<1>1. IsWellFoundedOn(R, Nat)
  BY NatLessThanWellFounded
<1>2. \A x, y \in Nat : x < y => <<x, y>> \in R
  BY DEF OpToRel
<1> HIDE DEF R
<1>3. PICK m \in T : \A y \in T : ~ (<<y, m>> \in R)
  BY <1>1, WFMin
<1>4. \A k \in T : k \in Nat /\ m \in Nat /\ ~ (k < m)
  BY <1>2, <1>3
<1> QED BY <1>4

(* The recursion of Lineage has a solution: of n, what every set of nodes  *)
(* contains that contains n and its members' parents.                      *)
LEMMA LineageSolved ==
  ASSUME NEW ns, Linked(ns)
  PROVE  \E line : line = [n \in 0 .. Len(ns) |-> IF n = 0 THEN {} ELSE {n} \cup line[ns[n].parent]]
<1> DEFINE Ids == 1 .. Len(ns)
           Closed(S) == \A m \in S : ns[m].parent # 0 => ns[m].parent \in S
           f == [n \in 0 .. Len(ns) |->
                   {a \in Ids : n # 0 /\ \A S \in SUBSET Ids : n \in S /\ Closed(S) => a \in S}]
<1>1. Len(ns) \in Nat /\ DOMAIN ns = Ids
  BY DEF Linked
<1>2. f[0] = {}
  BY <1>1
<1>3. ASSUME NEW n \in Ids
      PROVE  f[n] = {n} \cup f[ns[n].parent]
  <2> DEFINE p == ns[n].parent
  <2>1. p \in 0 .. Len(ns) /\ n \in 0 .. Len(ns) /\ n # 0
    BY <1>1 DEF Linked
  <2>2. p # 0 => p \in Ids
    BY <1>1, <2>1
  <2> HIDE DEF p
  <2>3. ASSUME NEW a \in f[n] PROVE a \in {n} \cup f[p]
    <3>1. f[p] \in SUBSET Ids
      BY <2>1
    <3>2. Closed({n} \cup f[p])
      <4> SUFFICES ASSUME NEW m \in {n} \cup f[p], ns[m].parent # 0
                   PROVE  ns[m].parent \in {n} \cup f[p]
        OBVIOUS
      <4>1. CASE m = n
        <5>1. p # 0
          BY <4>1 DEF p
        <5>2. p \in f[p]
          BY <2>1, <2>2, <5>1
        <5> QED BY <4>1, <5>2 DEF p
      <4>2. CASE m \in f[p]
        <5>1. m \in Ids /\ p # 0 /\ \A S \in SUBSET Ids : p \in S /\ Closed(S) => m \in S
          BY <2>1, <4>2
        <5>2. ns[m].parent \in Ids
          BY <1>1, <5>1 DEF Linked
        <5>3. \A S \in SUBSET Ids : p \in S /\ Closed(S) => ns[m].parent \in S
          BY <5>1
        <5>4. ns[m].parent \in f[p]
          BY <2>1, <5>1, <5>2, <5>3
        <5> QED BY <5>4
      <4> QED BY <4>1, <4>2
    <3>3. {n} \cup f[p] \in SUBSET Ids
      BY <3>1
    <3>4. \A S \in SUBSET Ids : n \in S /\ Closed(S) => a \in S
      BY <2>1, <2>3
    <3> HIDE DEF f, Closed
    <3> QED BY <3>2, <3>3, <3>4
  <2>4. ASSUME NEW a \in {n} \cup f[p] PROVE a \in f[n]
    <3>1. CASE a = n
      BY <2>1, <3>1
    <3>2. CASE a \in f[p]
      <4>1. a \in Ids /\ p # 0 /\ \A S \in SUBSET Ids : p \in S /\ Closed(S) => a \in S
        BY <2>1, <3>2
      <4>2. \A S \in SUBSET Ids : n \in S /\ Closed(S) => p \in S
        BY <4>1 DEF p
      <4> HIDE DEF Closed
      <4>3. \A S \in SUBSET Ids : n \in S /\ Closed(S) => a \in S
        BY <4>1, <4>2
      <4> QED BY <2>1, <4>1, <4>3
    <3> QED BY <2>4, <3>1, <3>2
  <2> HIDE DEF f
  <2> QED BY <2>3, <2>4 DEF p
<1>4. f = [n \in 0 .. Len(ns) |-> IF n = 0 THEN {} ELSE {n} \cup f[ns[n].parent]]
  <2>1. f = [n \in 0 .. Len(ns) |-> f[n]]
    OBVIOUS
  <2>2. ASSUME NEW n \in 0 .. Len(ns)
        PROVE  f[n] = IF n = 0 THEN {} ELSE {n} \cup f[ns[n].parent]
    <3>1. n = 0 \/ n \in Ids
      BY <1>1
    <3> HIDE DEF f, Ids, Closed
    <3> QED BY <1>2, <1>3, <3>1
  <2> HIDE DEF f
  <2> QED BY <2>1, <2>2
<1> QED BY <1>4

(* The lineage of a node is that of its parent with the node behind it.    *)
LEMMA LineageOf ==
  ASSUME NEW ns, Linked(ns), NEW n \in DOMAIN ns
  PROVE  Lineage(ns, n) = {n} \cup IF ns[n].parent = 0 THEN {} ELSE Lineage(ns, ns[n].parent)
<1> DEFINE line == CHOOSE line : line = [k \in 0 .. Len(ns) |->
                                           IF k = 0 THEN {} ELSE {k} \cup line[ns[k].parent]]
<1>1. line = [k \in 0 .. Len(ns) |-> IF k = 0 THEN {} ELSE {k} \cup line[ns[k].parent]]
  BY LineageSolved
<1>2. \A k : Lineage(ns, k) = line[k]
  BY DEF Lineage
<1> HIDE DEF line
<1>3. n \in 0 .. Len(ns) /\ n # 0 /\ ns[n].parent \in 0 .. Len(ns) /\ 0 \in 0 .. Len(ns)
  BY DEF Linked
<1>4. line[n] = {n} \cup line[ns[n].parent]
  BY <1>1, <1>3
<1>5. line[0] = {}
  BY <1>1, <1>3
<1> QED BY <1>2, <1>4, <1>5

(* No node has a younger ancestor. *)
LEMMA LineageIsOlder ==
  ASSUME NEW ns, Linked(ns), NEW n \in DOMAIN ns
  PROVE  \A a \in Lineage(ns, n) : a \in DOMAIN ns /\ a <= n
<1> DEFINE T == {k \in DOMAIN ns : \E a \in Lineage(ns, k) : ~ (a \in DOMAIN ns /\ a <= k)}
<1>1. DOMAIN ns = 1 .. Len(ns) /\ Len(ns) \in Nat
  BY DEF Linked
<1>2. SUFFICES T = {}
  OBVIOUS
<1>3. SUFFICES ASSUME T # {} PROVE FALSE
  OBVIOUS
<1>4. PICK m \in T : \A k \in T : m <= k
  <2>1. T \in SUBSET Nat
    BY <1>1
  <2> HIDE DEF T
  <2> QED BY <1>3, <2>1, LeastNumber
<1>5. m \in DOMAIN ns /\ ns[m].parent \in 0 .. m - 1 /\ m \in Nat
  BY <1>1 DEF Linked
<1>6. ns[m].parent # 0 => ns[m].parent \in DOMAIN ns /\ ns[m].parent \notin T
  BY <1>1, <1>4, <1>5
<1>7. \A a \in Lineage(ns, m) : a = m \/ (ns[m].parent # 0 /\ a \in Lineage(ns, ns[m].parent))
  BY <1>5, LineageOf
<1>8. \A a \in Lineage(ns, m) : a \in DOMAIN ns /\ a <= m
  <2> SUFFICES ASSUME NEW a \in Lineage(ns, m), a # m PROVE a \in DOMAIN ns /\ a <= m
    BY <1>1, <1>5
  <2>1. a \in DOMAIN ns /\ a <= ns[m].parent
    BY <1>6, <1>7
  <2> QED BY <1>1, <1>5, <2>1
<1> QED BY <1>8

(* A node added at the end changes no other node's lineage. *)
LEMMA LineageKept ==
  ASSUME NEW ns, Linked(ns), NEW node \in Node, NEW n \in DOMAIN ns,
         NEW grown, grown = Append(ns, node), Linked(grown)
  PROVE  Lineage(grown, n) = Lineage(ns, n)
<1> DEFINE T == {k \in DOMAIN ns : Lineage(grown, k) # Lineage(ns, k)}
<1>1. DOMAIN ns = 1 .. Len(ns) /\ Len(ns) \in Nat /\ DOMAIN ns \subseteq DOMAIN grown
      /\ \A k \in DOMAIN ns : grown[k] = ns[k]
  BY DEF Linked
<1>2. SUFFICES T = {}
  OBVIOUS
<1>3. SUFFICES ASSUME T # {} PROVE FALSE
  OBVIOUS
<1>4. PICK m \in T : \A k \in T : m <= k
  <2>1. T \in SUBSET Nat
    BY <1>1
  <2> HIDE DEF T
  <2> QED BY <1>3, <2>1, LeastNumber
<1>5. m \in DOMAIN ns /\ ns[m].parent \in 0 .. m - 1 /\ m \in Nat
  BY <1>1 DEF Linked
<1>6. ns[m].parent # 0 => ns[m].parent \in DOMAIN ns /\ ns[m].parent \notin T
  BY <1>1, <1>4, <1>5
<1>7. Lineage(ns, m) = {m} \cup IF ns[m].parent = 0 THEN {} ELSE Lineage(ns, ns[m].parent)
  BY <1>5, LineageOf
<1>8. Lineage(grown, m) = {m} \cup IF ns[m].parent = 0 THEN {} ELSE Lineage(grown, ns[m].parent)
  <2>1. m \in DOMAIN grown /\ grown[m].parent = ns[m].parent
    BY <1>1, <1>5
  <2>2. Lineage(grown, m) = {m} \cup IF grown[m].parent = 0 THEN {}
                                     ELSE Lineage(grown, grown[m].parent)
    BY <2>1, LineageOf, Zenon
  <2> QED BY <2>1, <2>2
<1> QED BY <1>5, <1>6, <1>7, <1>8

-----------------------------------------------------------------------------
-----------------------------------------------------------------------------
(* The turns of a chat. *)

(* What the types say of the nodes.                                        *)
LEMMA NodesLinked == Typed => Linked(nodes) /\ head \in DOMAIN nodes
  BY DEF Typed, TypeOK, Linked

(* Every turn the code appends is a turn.                                  *)
LEMMA MadeTurns ==
  ASSUME Typed
  PROVE  /\ Preamble(head) \in Turn /\ FirstAsk \in Turn /\ Feedback(head) \in Turn
         /\ Initial(nodes[head].seed) \in Turn
         /\ \A node \in DOMAIN nodes : Preamble(node) \in Turn
         /\ \A c, a \in Nat : Assistant(c, a) \in Turn
<1>1. /\ DOMAIN nodes \subseteq Nat /\ head \in DOMAIN nodes
      /\ \A n \in DOMAIN nodes : nodes[n] \in Node
  BY DEF Typed, TypeOK
<1>2. \A n \in DOMAIN nodes : nodes[n].code \in Nat /\ nodes[n].seed \in Nat
  BY <1>1 DEF Node, SeedRoots
<1>3. \A node \in DOMAIN nodes : Preamble(node) \in Turn
  BY <1>1, <1>2 DEF Turn, Kinds, Preamble
<1>4. Initial(nodes[head].seed) \in Turn
  BY <1>1, <1>2 DEF Turn, Kinds, Initial
<1>5. FirstAsk \in Turn /\ Feedback(head) \in Turn
  BY <1>1 DEF Turn, Kinds, FirstAsk, Feedback, NoCode
<1>6. \A c, a \in Nat : Assistant(c, a) \in Turn
  BY DEF Turn, Kinds, Assistant
<1> QED BY <1>1, <1>3, <1>4, <1>5, <1>6

(* Eliding the code of other replies changes nothing else of a turn. *)
LEMMA TrimmedTurns ==
  ASSUME chat \in Seq(Turn)
  PROVE  /\ Trimmed \in Seq(Turn) /\ Len(Trimmed) = Len(chat)
         /\ \A i \in DOMAIN chat :
              /\ Trimmed[i].role = chat[i].role /\ Trimmed[i].kind = chat[i].kind
              /\ Trimmed[i].about = chat[i].about
              /\ i \in AssistantTurns =>
                   Trimmed[i].code = IF IsLast(i, AssistantTurns) THEN chat[i].code ELSE NoCode
<1>1. DOMAIN chat = 1 .. Len(chat) /\ Len(chat) \in Nat
  OBVIOUS
<1>2. ASSUME NEW i \in DOMAIN chat
      PROVE  /\ Trimmed[i] \in Turn
             /\ Trimmed[i].role = chat[i].role /\ Trimmed[i].kind = chat[i].kind
             /\ Trimmed[i].about = chat[i].about
             /\ i \in AssistantTurns =>
                  Trimmed[i].code = IF IsLast(i, AssistantTurns) THEN chat[i].code ELSE NoCode
  <2>1. chat[i] \in Turn
    BY <1>1
  <2>2. [chat[i] EXCEPT !.code = NoCode] =
          [role |-> chat[i].role, kind |-> chat[i].kind, code |-> NoCode, about |-> chat[i].about]
    BY <2>1 DEF Turn
  <2>3. Trimmed[i] = IF i \in AssistantTurns /\ ~ KeepsCode(i)
                     THEN [chat[i] EXCEPT !.code = NoCode] ELSE chat[i]
    BY DEF Trimmed, AssistantTurns
  <2>4. NoCode \in Nat
    BY DEF NoCode
  <2> HIDE DEF NoCode
  <2> QED BY <2>1, <2>2, <2>3, <2>4 DEF KeepsCode, Turn
<1>3. Trimmed = [i \in 1 .. Len(chat) |-> Trimmed[i]]
  BY <1>1 DEF Trimmed
<1> HIDE DEF Trimmed
<1> QED BY <1>1, <1>2, <1>3

(* A turn more, what was said before being the same up to elided code. *)
LEMMA SaidMore ==
  ASSUME chat \in Seq(Turn), NEW c \in Seq(Turn), Len(c) = Len(chat), NEW turn \in Turn,
         \A i \in DOMAIN chat : c[i].role = chat[i].role,
         chat' = Append(c, turn)
  PROVE  /\ chat' \in Seq(Turn) /\ Len(chat') = Len(chat) + 1 /\ Len(chat) \in Nat
         /\ DOMAIN chat' = DOMAIN chat \cup {Len(chat) + 1} /\ DOMAIN chat = 1 .. Len(chat)
         /\ chat'[Len(chat) + 1] = turn /\ Last(chat') = turn /\ chat' # << >>
         /\ \A i \in DOMAIN chat : chat'[i] = c[i]
         /\ AssistantTurns' = AssistantTurns \cup
              (IF turn.role = "assistant" THEN {Len(chat) + 1} ELSE {})
<1>1. /\ chat' \in Seq(Turn) /\ Len(chat') = Len(chat) + 1 /\ Len(chat) \in Nat
      /\ DOMAIN chat' = DOMAIN chat \cup {Len(chat) + 1} /\ DOMAIN chat = 1 .. Len(chat)
      /\ chat'[Len(chat) + 1] = turn /\ \A i \in DOMAIN chat : chat'[i] = c[i]
  OBVIOUS
<1>2. Last(chat') = turn /\ chat' # << >>
  BY <1>1 DEF Last
<1>3. AssistantTurns' = {i \in DOMAIN chat' : chat'[i].role = "assistant"}
  BY DEF AssistantTurns
<1>4. AssistantTurns' = AssistantTurns \cup
        (IF turn.role = "assistant" THEN {Len(chat) + 1} ELSE {})
  BY <1>1, <1>3 DEF AssistantTurns
<1> QED BY <1>1, <1>2, <1>4

(* What the branch is told next about its own node stays on its lineage. *)
LEMMA ToldMore ==
  ASSUME Typed, ConversationFollowsLineage,
         NEW c \in Seq(Turn), Len(c) = Len(chat), NEW turn \in Turn, chat' = Append(c, turn),
         \A i \in DOMAIN chat : /\ c[i].role = chat[i].role /\ c[i].kind = chat[i].kind
                                /\ c[i].about = chat[i].about,
         turn.kind \in {"feedback", "preamble"} => turn.about = head,
         UNCHANGED <<nodes, head>>
  PROVE  ConversationFollowsLineage'
<1> DEFINE told == {i \in DOMAIN chat : chat[i].kind \in {"feedback", "preamble"}}
           line == Lineage(nodes, head)
<1>1. /\ DOMAIN chat' = DOMAIN chat \cup {Len(chat) + 1} /\ DOMAIN chat = 1 .. Len(chat)
      /\ chat'[Len(chat) + 1] = turn /\ \A i \in DOMAIN chat : chat'[i] = c[i]
      /\ Len(chat) \in Nat
  BY SaidMore DEF Typed, TypeOK
<1>2. head \in line /\ \A a \in line : a \in Nat /\ a <= head
  BY NodesLinked, LineageOf, LineageIsOlder DEF Linked
<1>3. /\ told' \subseteq told \cup {Len(chat) + 1} /\ told \subseteq 1 .. Len(chat)
      /\ \A i \in told : chat'[i].about = chat[i].about
      /\ Len(chat) + 1 \in told' => chat'[Len(chat) + 1].about = head
  <2>1. told' = {i \in DOMAIN chat' : chat'[i].kind \in {"feedback", "preamble"}}
    OBVIOUS
  <2> QED BY <1>1, <2>1
<1>4. line' = line
  OBVIOUS
<1>5. /\ \A i \in told : chat[i].about \in line
      /\ \A i, j \in told : i < j => chat[i].about <= chat[j].about
  BY DEF ConversationFollowsLineage
<1> HIDE DEF line, told
<1>6. ASSUME NEW i \in told' PROVE chat'[i].about \in line
  <2>1. CASE i \in told
    BY <1>3, <1>5, <2>1
  <2>2. CASE i = Len(chat) + 1
    BY <1>2, <1>3, <1>6, <2>2
  <2> QED BY <1>3, <2>1, <2>2
<1>7. \A i, j \in told' : i < j => chat'[i].about <= chat'[j].about
  <2> SUFFICES ASSUME NEW i \in told', NEW j \in told', i < j
               PROVE  chat'[i].about <= chat'[j].about
    OBVIOUS
  <2>1. i \in told
    BY <1>1, <1>3
  <2>2. CASE j \in told
    BY <1>3, <1>5, <2>1, <2>2
  <2>3. CASE j = Len(chat) + 1
    BY <1>2, <1>3, <1>5, <2>1, <2>3
  <2> QED BY <1>3, <2>2, <2>3
<1> QED BY <1>4, <1>6, <1>7 DEF ConversationFollowsLineage, told, line

-----------------------------------------------------------------------------

(* Each step keeps the invariant.                                          *)
LEMMA ChatInit == Init => IInv
<1> SUFFICES ASSUME Init PROVE IInv
  OBVIOUS
<1> USE DEF Init
<1>1. /\ nodes = <<[parent |-> 0, code |-> 1, seed |-> 1, attempt |-> 0],
                   [parent |-> 0, code |-> 2, seed |-> 2, attempt |-> 0]>>
      /\ chat = << >> /\ attempts = 0 /\ pc = "between" /\ head = 1
  BY DEF Root
<1>2. nodes \in Seq(Node) /\ DOMAIN nodes = {1, 2}
  BY <1>1 DEF Node, SeedRoots
<1>3. Typed
  BY <1>1, <1>2, ChatAssumption DEF Typed, TypeOK, SeedRoots, NoCode
<1>4. AssistantTurns = {} /\ DOMAIN chat = {}
  BY <1>1 DEF AssistantTurns
<1> QED BY <1>1, <1>2, <1>3, <1>4 DEF IInv, Numbered, Answered, ShownAsMade, StandsOnLast, Asked,
       ConversationFollowsLineage, Proposed

(* A branch begun anew has not been told anything of another lineage. *)
LEMMA BegunAnew ==
  ASSUME Typed, Typed', Numbered, AssistantTurns' = {}, UNCHANGED <<nodes, attempts>>,
         pc' = "between",
         chat' = << >> \/ (Len(chat') = 1 /\ chat'[1].about = head')
  PROVE  IInv'
<1>1. Numbered' /\ Answered' /\ ShownAsMade' /\ StandsOnLast' /\ Asked'
  BY DEF Numbered, Answered, ShownAsMade, StandsOnLast, Asked
<1>2. head' \in Lineage(nodes', head')
  <2>1. Linked(nodes') /\ head' \in DOMAIN nodes'
    BY DEF Typed, TypeOK, Linked
  <2> QED BY <2>1, LineageOf
<1>3. \A i \in DOMAIN chat' : i = 1 /\ chat'[i].about = head' /\ head' \in Nat
  BY DEF Typed, TypeOK
<1>4. ConversationFollowsLineage'
  BY <1>2, <1>3 DEF ConversationFollowsLineage
<1> QED BY <1>1, <1>4 DEF IInv

LEMMA PivotInv ==
  ASSUME IInv, Pivot
  PROVE  IInv'
<1>1. PICK node \in DOMAIN nodes : chat' = <<Preamble(node)>> /\ head' = node
  BY DEF Pivot, ChatAfterPivot
<1>2. pc' = "between" /\ UNCHANGED <<nodes, round, code, attempts, restarts>>
  BY DEF Pivot
<1>3. Preamble(node) \in Turn /\ Preamble(node).about = node /\ Preamble(node).role = "user"
  BY MadeTurns DEF IInv, Preamble
<1>4. chat' \in Seq(Turn) /\ Len(chat') = 1 /\ chat'[1] = Preamble(node) /\ DOMAIN chat' = {1}
  BY <1>1, <1>3
<1>5. Typed'
  BY <1>1, <1>2, <1>4 DEF IInv, Typed, TypeOK
<1>6. AssistantTurns' = {}
  BY <1>3, <1>4 DEF AssistantTurns
<1> QED BY <1>1, <1>2, <1>3, <1>4, <1>5, <1>6, BegunAnew DEF IInv

LEMMA NewBranchInv ==
  ASSUME IInv, Reseed \/ Restart
  PROVE  IInv'
<1>1. /\ head' \in DOMAIN nodes /\ chat' = << >> /\ pc' = "between"
      /\ UNCHANGED <<nodes, code, attempts>> /\ round' \in {0, round}
      /\ restarts' \in {restarts, restarts + 1}
  BY DEF Reseed, Restart, MakeBranch
<1>2. Typed'
  BY <1>1, ChatAssumption DEF IInv, Typed, TypeOK
<1>3. AssistantTurns' = {}
  BY <1>1 DEF AssistantTurns
<1> QED BY <1>1, <1>2, <1>3, BegunAnew DEF IInv

(* A step that raises, a review that continues, and no step. *)
LEMMA NothingSaid ==
  ASSUME IInv, UNCHANGED <<nodes, head, chat, round, code, attempts, restarts>>,
         pc' = pc \/ pc' \in {"reviewing", "between"}
  PROVE  IInv'
<1>1. AssistantTurns' = AssistantTurns
  BY DEF AssistantTurns
<1>2. Typed'
  BY DEF IInv, Typed, TypeOK
<1>3. Numbered' /\ Answered' /\ ShownAsMade'
  BY <1>1 DEF IInv, Numbered, Answered, ShownAsMade, IsLast
<1>4. StandsOnLast' /\ Asked'
  BY <1>1 DEF IInv, StandsOnLast, Asked, IsLast
<1>5. ConversationFollowsLineage'
  BY DEF IInv, ConversationFollowsLineage
<1> QED BY <1>2, <1>3, <1>4, <1>5 DEF IInv

LEMMA AskInv ==
  ASSUME IInv, Ask
  PROVE  IInv'
<1>1. /\ pc' = "asking" /\ round < Rounds /\ round' = round + 1
      /\ UNCHANGED <<nodes, head, code, attempts, restarts>>
  BY DEF Ask, MoreRounds
<1>2. Typed /\ chat \in Seq(Turn) /\ ConversationFollowsLineage
  BY DEF IInv, Typed, TypeOK
<1>3. PICK turn \in Turn, c \in Seq(Turn) :
        /\ chat' = Append(c, turn) /\ Len(c) = Len(chat) /\ turn.role = "user"
        /\ turn.kind \in {"feedback", "preamble"} => turn.about = head
        /\ \A i \in DOMAIN chat :
             /\ c[i].role = chat[i].role /\ c[i].kind = chat[i].kind /\ c[i].about = chat[i].about
             /\ i \in AssistantTurns =>
                  c[i].code = IF IsLast(i, AssistantTurns) THEN chat[i].code ELSE NoCode
  <2>1. CASE AssistantTurns = {} /\ chat = << >> /\ chat' = <<Initial(nodes[head].seed)>>
    <3>1. chat' = Append(chat, Initial(nodes[head].seed)) /\ Initial(nodes[head].seed) \in Turn
      BY <1>2, <2>1, MadeTurns
    <3> QED BY <1>2, <2>1, <3>1 DEF Initial
  <2>2. CASE AssistantTurns = {} /\ chat' = Append(chat, FirstAsk)
    <3>1. FirstAsk \in Turn
      BY <1>2, MadeTurns
    <3> QED BY <1>2, <2>2, <3>1 DEF FirstAsk
  <2>3. CASE chat' = Append(Trimmed, Feedback(head))
    <3>1. Feedback(head) \in Turn
      BY <1>2, MadeTurns
    <3>2. Feedback(head).role = "user" /\ Feedback(head).about = head
      BY DEF Feedback
    <3> QED BY <1>2, <2>3, <3>1, <3>2, TrimmedTurns
  <2> QED BY <2>1, <2>2, <2>3 DEF Ask
<1>4. /\ chat' \in Seq(Turn) /\ chat' # << >> /\ Last(chat') = turn
      /\ \A i \in DOMAIN chat : chat'[i] = c[i]
      /\ AssistantTurns' = AssistantTurns /\ AssistantTurns \subseteq DOMAIN chat
  BY <1>2, <1>3, SaidMore DEF AssistantTurns
<1>5. \A i \in AssistantTurns :
        /\ chat'[i].about = chat[i].about
        /\ chat'[i].code = IF IsLast(i, AssistantTurns) THEN chat[i].code ELSE NoCode
  BY <1>3, <1>4
<1>6. Typed'
  BY <1>1, <1>4, ChatAssumption DEF IInv, Typed, TypeOK
<1>7. Numbered' /\ Answered' /\ ShownAsMade'
  BY <1>1, <1>4, <1>5 DEF IInv, Numbered, Answered, ShownAsMade, IsLast
<1>8. StandsOnLast'
  BY <1>1, <1>4, <1>5 DEF IInv, StandsOnLast, IsLast
<1>9. Asked'
  BY <1>1, <1>3, <1>4, <1>5 DEF Asked, IsLast
<1>10. ConversationFollowsLineage'
  BY <1>1, <1>2, <1>3, ToldMore
<1> QED BY <1>6, <1>7, <1>8, <1>9, <1>10 DEF IInv

LEMMA ReplyInv ==
  ASSUME IInv, Reply
  PROVE  IInv'
<1>1. /\ pc' = "compiling" /\ attempts' = attempts + 1
      /\ UNCHANGED <<nodes, head, round, restarts>>
  BY DEF Reply
<1>2. /\ Typed /\ chat \in Seq(Turn) /\ ConversationFollowsLineage /\ attempts \in Nat
      /\ nodes[head].code \in Nat
  <2>1. Typed /\ ConversationFollowsLineage /\ nodes[head] \in Node
    BY DEF IInv, Typed, TypeOK
  <2> QED BY <2>1 DEF Typed, TypeOK, Node
<1>3. PICK shown \in Nat : /\ chat' = Append(chat, Assistant(shown, attempts'))
                           /\ code' = Proposed(attempts') => shown = code'
                           /\ code' \in Nat /\ code' <= Proposed(attempts')
  <2>1. nodes[head].code <= Proposed(attempts)
    BY <1>2 DEF IInv, Numbered, Typed, TypeOK
  <2>2. /\ Proposed(attempts) \in Nat /\ Proposed(attempts') \in Nat
        /\ Proposed(attempts) < Proposed(attempts')
    BY <1>1, <1>2 DEF Proposed
  <2>3. nodes[head].code < Proposed(attempts')
    BY <1>2, <2>1, <2>2
  <2> QED BY <1>1, <1>2, <2>2, <2>3 DEF Reply, NoCode
<1> DEFINE turn == Assistant(shown, attempts')
           m == Len(chat) + 1
<1>4. /\ turn \in Turn /\ turn.role = "assistant" /\ turn.kind = "reply"
      /\ turn.about = attempts' /\ turn.code = shown
  BY <1>1, <1>2, MadeTurns DEF Assistant
<1> HIDE DEF turn
<1>5. /\ chat' \in Seq(Turn) /\ Len(chat') = m /\ m \in Nat /\ m >= 1 /\ chat'[m] = turn
      /\ \A i \in AssistantTurns : chat'[i] = chat[i] /\ i < m /\ i \in Nat
      /\ AssistantTurns' = AssistantTurns \cup {m}
  BY <1>2, <1>3, <1>4, SaidMore DEF AssistantTurns, turn
<1> HIDE DEF m
<1>6. Typed'
  BY <1>1, <1>2, <1>3, <1>5 DEF Typed, TypeOK
<1>7. /\ \A n \in DOMAIN nodes : nodes[n].attempt \in Nat /\ nodes[n].attempt <= attempts
      /\ \A i \in AssistantTurns :
           chat[i].about \in Nat /\ 1 <= chat[i].about /\ chat[i].about <= attempts
      /\ \A n \in DOMAIN nodes : nodes[n].code \in Nat /\ nodes[n].code <= Proposed(attempts)
  <2>1. /\ \A n \in DOMAIN nodes : nodes[n] \in Node
        /\ \A i \in AssistantTurns : chat[i] \in Turn
    BY <1>2 DEF Typed, AssistantTurns
  <2> QED BY <2>1 DEF IInv, Numbered, Node, Turn
<1>8. Numbered'
  BY <1>1, <1>2, <1>4, <1>5, <1>7 DEF Numbered, Proposed
<1>9. Answered'
  <2>1. \A i \in AssistantTurns' : i < m => chat'[i].about < attempts'
    BY <1>1, <1>2, <1>5, <1>7
  <2> QED BY <1>3, <1>4, <1>5, <2>1 DEF Answered
<1>10. ShownAsMade'
  <2>1. \A i \in AssistantTurns' : IsLast(i, AssistantTurns') => i = m
    BY <1>5 DEF IsLast
  <2> QED BY <1>1, <1>2, <1>4, <1>5, <1>7, <2>1 DEF ShownAsMade
<1>11. StandsOnLast'
  <2>1. \A i \in AssistantTurns' : IsLast(i, AssistantTurns') => i = m
    BY <1>5 DEF IsLast
  <2> QED BY <1>1, <1>2, <1>4, <1>5, <1>7, <2>1 DEF StandsOnLast
<1>12. Asked'
  BY <1>1 DEF Asked
<1>13. ConversationFollowsLineage'
  BY <1>1, <1>2, <1>3, <1>4, ToldMore DEF turn
<1> QED BY <1>6, <1>8, <1>9, <1>10, <1>11, <1>12, <1>13 DEF IInv

LEMMA StepReturnsInv ==
  ASSUME IInv, StepReturns
  PROVE  IInv'
<1> DEFINE node == [parent |-> head, code |-> code, seed |-> nodes[head].seed, attempt |-> attempts]
           id == Len(nodes) + 1
<1>1. /\ pc = "compiling" /\ pc' = "reviewing" /\ nodes' = Append(nodes, node) /\ head' = id
      /\ UNCHANGED <<chat, round, code, attempts, restarts>>
  BY DEF StepReturns, MovesOn
<1>2. /\ Typed /\ nodes \in Seq(Node) /\ Len(nodes) \in Nat /\ head \in 1 .. Len(nodes)
      /\ attempts \in Nat /\ code \in Nat /\ chat \in Seq(Turn)
  BY DEF IInv, Typed, TypeOK
<1>3. node \in Node /\ node.attempt = attempts /\ node.parent = head /\ node.code = code
      /\ node.seed \in SeedRoots
  <2>1. nodes[head] \in Node
    BY <1>2
  <2> QED BY <1>2, <2>1 DEF Node
<1> HIDE DEF node
<1>4. /\ nodes' \in Seq(Node) /\ Len(nodes') = id /\ nodes'[id] = node
      /\ DOMAIN nodes' = DOMAIN nodes \cup {id} /\ DOMAIN nodes = 1 .. Len(nodes)
      /\ \A n \in DOMAIN nodes : nodes'[n] = nodes[n]
  BY <1>1, <1>2, <1>3
<1>5. Typed'
  BY <1>1, <1>2, <1>3, <1>4 DEF Typed, TypeOK
<1>6. AssistantTurns' = AssistantTurns
  BY <1>1 DEF AssistantTurns
<1>7. /\ \A n \in DOMAIN nodes : nodes[n].attempt \in Nat /\ nodes[n].attempt < attempts
      /\ \A i \in AssistantTurns : chat[i].about \in Nat
  <2>1. /\ \A n \in DOMAIN nodes : nodes[n] \in Node
        /\ \A i \in AssistantTurns : chat[i] \in Turn
    BY <1>2 DEF AssistantTurns
  <2> QED BY <1>1, <2>1 DEF IInv, Numbered, Node, Turn
<1>8. PICK m \in Nat :
        /\ m = Len(chat) /\ m \in AssistantTurns /\ chat[m].about = attempts
        /\ code <= Proposed(attempts)
        /\ code = Proposed(attempts) => chat[m].code = code
        /\ \A i \in AssistantTurns : i \in Nat /\ (i = m \/ (i < m /\ chat[i].about < attempts))
  BY <1>1, <1>2 DEF IInv, Answered, AssistantTurns
<1>9. Numbered' /\ Answered' /\ Asked'
  BY <1>1, <1>2, <1>3, <1>4, <1>6, <1>7 DEF IInv, Numbered, Answered, Asked
<1>10. ShownAsMade'
  <2> SUFFICES ASSUME NEW i \in AssistantTurns, NEW n \in DOMAIN nodes',
                      IsLast(i, AssistantTurns), nodes'[n].attempt = chat[i].about,
                      nodes'[n].code = Proposed(chat[i].about)
               PROVE  chat[i].code = nodes'[n].code
    BY <1>1, <1>6 DEF ShownAsMade, IsLast
  <2>1. CASE n = id
    BY <1>2, <1>3, <1>4, <1>7, <1>8, <2>1
  <2>2. CASE n \in DOMAIN nodes
    BY <1>4, <2>2 DEF IInv, ShownAsMade
  <2> QED BY <1>4, <2>1, <2>2
<1>11. StandsOnLast'
  <2>1. \A i \in AssistantTurns : IsLast(i, AssistantTurns) => i = m
    BY <1>8 DEF IsLast
  <2> QED BY <1>1, <1>3, <1>4, <1>6, <1>8, <2>1 DEF StandsOnLast
<1>12. ConversationFollowsLineage'
  <2>1. Linked(nodes) /\ Linked(nodes') /\ head \in DOMAIN nodes /\ id \in DOMAIN nodes'
    BY <1>2, <1>4, <1>5, NodesLinked DEF Typed, TypeOK, Linked
  <2>2. Lineage(nodes', head) = Lineage(nodes, head)
    BY <1>1, <1>3, <2>1, LineageKept
  <2>3. Lineage(nodes', id) = {id} \cup Lineage(nodes', head)
    <3>1. nodes'[id].parent = head /\ head # 0
      BY <1>2, <1>3, <1>4
    <3>2. Lineage(nodes', id) = {id} \cup IF nodes'[id].parent = 0 THEN {}
                                          ELSE Lineage(nodes', nodes'[id].parent)
      BY <2>1, LineageOf
    <3> QED BY <3>1, <3>2
  <2> QED BY <1>1, <2>2, <2>3 DEF IInv, ConversationFollowsLineage
<1> QED BY <1>5, <1>9, <1>10, <1>11, <1>12 DEF IInv

(* So does any of them.                                                    *)
LEMMA ChatNext == IInv /\ [Next]_vars => IInv'
<1> SUFFICES ASSUME IInv, [Next]_vars PROVE IInv'
  OBVIOUS
<1>1. CASE StepRaises \/ Continue \/ Done \/ UNCHANGED vars
  BY <1>1, NothingSaid DEF StepRaises, Continue, Done, vars
<1> QED BY <1>1, AskInv, ReplyInv, StepReturnsInv, PivotInv, NewBranchInv DEF Next

(* IInv holds of the conversation of a branch through every turn, pivot,   *)
(* restart and new branch.                                                 *)
THEOREM ChatInvariant == Spec => []IInv
<1> QED BY ChatInit, ChatNext, PTL DEF Spec

(* The nodes, the conversation and the counters of a branch keep their     *)
(* types.                                                                  *)
THEOREM ChatTypeCorrect == Spec => []TypeOK
<1>1. IInv => TypeOK
  BY DEF IInv, Typed
<1> QED BY <1>1, ChatInvariant, PTL

(* All that a branch is told in its conversation, through pivots, restarts *)
(* and failed steps, is about ancestors of the node it stands on, oldest   *)
(* first.                                                                  *)
THEOREM ToldOnlyOfItsLineage == Spec => []ConversationFollowsLineage
<1>1. IInv => ConversationFollowsLineage
  BY DEF IInv
<1> QED BY <1>1, ChatInvariant, PTL

(* When the model is asked and its last attempt made the current node of   *)
(* the code it proposed, its reply shows that code in full; no other reply *)
(* shows code.                                                             *)
THEOREM LastAttemptShown == Spec => []LastAttemptInView
<1>1. IInv => LastAttemptInView
  <2>1. IInv => head \in DOMAIN nodes
    BY DEF IInv, Typed, TypeOK
  <2> QED BY <2>1 DEF IInv, Asked, ShownAsMade, LastAttemptInView
<1> QED BY <1>1, ChatInvariant, PTL

(* The probe feedback in the conversation is about the last attempt,       *)
(* unless that attempt left no result.                                     *)
THEOREM FeedbackIsOfLast == Spec => []FeedbackOfLastResult
<1>1. IInv => FeedbackOfLastResult
  BY DEF IInv, Asked, StandsOnLast, FeedbackOfLastResult
<1> QED BY <1>1, ChatInvariant, PTL
=============================================================================
