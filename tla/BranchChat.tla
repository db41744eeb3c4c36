------------------------------ MODULE BranchChat ------------------------------
(***************************************************************************)
(* The conversation of one branch with the mutator model: the chat_history *)
(* that step_branch (evolution/branch.py) extends and trims, that a pivot  *)
(* replaces and that a spawned, reseeded or resumed branch starts anew.    *)
(* Branches share nothing of it, so one branch is modelled; of the others  *)
(* there is the root of another seed, which a review may send it to.       *)
(*                                                                         *)
(* Policies are named by numbers: a seed's code by its root, a proposed    *)
(* code by the attempt that proposed it.  A turn of the chat is reduced to *)
(* who speaks, which code it shows in full and which attempt or node it is *)
(* about.                                                                  *)
(***************************************************************************)
EXTENDS Integers, Sequences, SequencesExt

CONSTANTS
  Rounds,        (* rounds of a session                                    *)
  Interval,      (* checkpoint_interval                                    *)
  MaxRestarts    (* bound: how often the run is resumed                    *)

ASSUME ChatAssumption == Rounds \in Nat /\ Interval \in Nat \ {0} /\ MaxRestarts \in Nat

(* The branch's seed root, and the root of another seed. *)
SeedRoots == {1, 2}

NoCode == 0

VARIABLES
  nodes,      (* the tree: each node's parent, code, seed and attempt      *)
  head,       (* current_node_id                                           *)
  chat,       (* chat_history                                              *)
  round,      (* round_num                                                 *)
  pc,         (* between rounds, or where the step is                      *)
  code,       (* new_code of the step                                      *)
  attempts,   (* attempts so far, in all sessions                          *)
  restarts    (* resumed sessions so far                                   *)

vars == <<nodes, head, chat, round, pc, code, attempts, restarts>>

Kinds == {"initial", "first", "feedback", "preamble", "reply"}

Turn == [role : {"user", "assistant"}, kind : Kinds, code : Nat, about : Nat]

Root(seed) == [parent |-> 0, code |-> seed, seed |-> seed, attempt |-> 0]

Init ==
  /\ nodes = <<Root(1), Root(2)>>
  /\ head = 1
  /\ chat = << >>
  /\ round = 0
  /\ pc = "between"
  /\ code = NoCode
  /\ attempts = 0
  /\ restarts = 0

Initial(seed) == [role |-> "user", kind |-> "initial", code |-> seed, about |-> 0]
Preamble(node) == [role |-> "user", kind |-> "preamble", code |-> nodes[node].code, about |-> node]
FirstAsk == [role |-> "user", kind |-> "first", code |-> NoCode, about |-> 0]
Feedback(node) == [role |-> "user", kind |-> "feedback", code |-> NoCode, about |-> node]
Assistant(shown, attempt) ==
  [role |-> "assistant", kind |-> "reply", code |-> shown, about |-> attempt]

AssistantTurns == {i \in DOMAIN chat : chat[i].role = "assistant"}
IsLast(i, turns) == i \in turns /\ \A j \in turns : j <= i

(* Mutant of KeepsCode: the search for it never sets last, so that every   *)
(* reply is trimmed.                                                       *)
KeepsNoCode(i) == i < 0

(* The one assistant turn that keeps its code. *)
KeepsCode(i) == IsLast(i, AssistantTurns)

(* _trim_history_code: the code of every other reply is elided. *)
Trimmed ==
  [i \in DOMAIN chat |->
     IF chat[i].role = "assistant" /\ ~ KeepsCode(i) THEN [chat[i] EXCEPT !.code = NoCode]
     ELSE chat[i]]

(* Mutant of MoreRounds: one round too many. *)
MoreRoundsInclusive == round <= Rounds

MoreRounds == round < Rounds

(* The user turn of step_branch; the model is asked once it is there. *)
Ask ==
  /\ pc = "between"
  /\ MoreRounds
  /\ round' = round + 1
  /\ \/ AssistantTurns = {} /\ chat = << >> /\ chat' = <<Initial(nodes[head].seed)>>
     \/ AssistantTurns = {} /\ chat # << >> /\ chat' = Append(chat, FirstAsk)
     \/ AssistantTurns # {} /\ chat' = Append(Trimmed, Feedback(head))
  /\ pc' = "asking"
  /\ UNCHANGED <<nodes, head, code, attempts, restarts>>

(* The code that an attempt's reply holds, if it holds one. *)
Proposed(attempt) == 2 + attempt

(* The reply holds new code; or there is none and the parent's is reused. *)
Reply ==
  /\ pc = "asking"
  /\ attempts' = attempts + 1
  /\ \/ /\ code' = Proposed(attempts')
        /\ chat' = Append(chat, Assistant(code', attempts'))
     \/ /\ code' = nodes[head].code
        /\ chat' = Append(chat, Assistant(NoCode, attempts'))
  /\ pc' = "compiling"
  /\ UNCHANGED <<nodes, head, round, restarts>>

(* Mutant of MovesOn: a failed attempt leaves the branch where it was. *)
MovesOnIfCoded(node) == IF Last(chat).code = NoCode THEN head ELSE node

(* The stitching moves the branch to the new node, good or bad. *)
MovesOn(node) == node

(* Compiled, evaluated or failed: the step has a result, and the stitching *)
(* makes it a node and the branch's head.                                  *)
StepReturns ==
  /\ pc = "compiling"
  /\ nodes' = Append(nodes, [parent |-> head, code |-> code, seed |-> nodes[head].seed,
                             attempt |-> attempts])
  /\ head' = MovesOn(Len(nodes) + 1)
  /\ pc' = "reviewing"
  /\ UNCHANGED <<chat, round, code, attempts, restarts>>

(* The step raised after the reply was added to the chat. *)
StepRaises ==
  /\ pc = "compiling"
  /\ pc' = "reviewing"
  /\ UNCHANGED <<nodes, head, chat, round, code, attempts, restarts>>

CheckpointDue == round % Interval = 0 /\ round < Rounds

Continue ==
  /\ pc = "reviewing"
  /\ pc' = "between"
  /\ UNCHANGED <<nodes, head, chat, round, code, attempts, restarts>>

(* Mutant of ChatAfterPivot: the preamble is added to what was said. *)
ChatKeptAfterPivot(node) == Append(chat, Preamble(node))

(* What a pivot leaves of the chat. *)
ChatAfterPivot(node) == <<Preamble(node)>>

(* reset_branch_for_pivot, and spawn_branch of a branch that takes over. *)
Pivot ==
  /\ pc = "reviewing"
  /\ CheckpointDue
  /\ \E node \in DOMAIN nodes : chat' = ChatAfterPivot(node) /\ head' = node
  /\ pc' = "between"
  /\ UNCHANGED <<nodes, round, code, attempts, restarts>>

MakeBranch(node) == head' = node /\ chat' = << >>

(* All branches were killed: a new one on the best, hence evaluated, node. *)
Reseed ==
  /\ pc = "reviewing"
  /\ CheckpointDue
  /\ \E node \in DOMAIN nodes \ SeedRoots : MakeBranch(node)
  /\ pc' = "between"
  /\ UNCHANGED <<nodes, round, code, attempts, restarts>>

(* The run is stopped and resumed: a new branch on a leaf of the tree.  A  *)
(* stop after the stitching and before the save is one before the stitching.*)
Restart ==
  /\ pc # "reviewing"
  /\ restarts < MaxRestarts
  /\ restarts' = restarts + 1
  /\ \E node \in DOMAIN nodes : (\A n \in DOMAIN nodes : nodes[n].parent # node) /\ MakeBranch(node)
  /\ round' = 0
  /\ pc' = "between"
  /\ UNCHANGED <<nodes, code, attempts>>

Done == pc = "between" /\ ~ MoreRounds /\ UNCHANGED vars

Next ==
  Ask \/ Reply \/ StepReturns \/ StepRaises \/ Continue \/ Pivot \/ Reseed \/ Restart \/ Done

Spec == Init /\ [][Next]_vars

-----------------------------------------------------------------------------
(* Properties. *)

TypeOK ==
  /\ head \in DOMAIN nodes
  /\ \A n \in DOMAIN nodes : nodes[n].parent \in 0 .. n - 1 /\ nodes[n].seed \in SeedRoots
  /\ chat \in Seq(Turn)
  /\ round \in 0 .. Rounds
  /\ pc \in {"between", "asking", "compiling", "reviewing"}

(* A node of a tree and its ancestors. *)
Lineage(ns, node) ==
  LET line[n \in 0 .. Len(ns)] == IF n = 0 THEN {} ELSE {n} \cup line[ns[n].parent]
  IN  line[node]

(* All that the branch is told in a conversation, the feedback of its      *)
(* rounds and the node a pivot put it on, is about ancestors of the node it*)
(* stands on, oldest first: nothing of a lineage it was moved away from,   *)
(* whatever failed, raised or was reviewed in between.                     *)
ConversationFollowsLineage ==
  LET told == {i \in DOMAIN chat : chat[i].kind \in {"feedback", "preamble"}} IN
  /\ \A i \in told : chat[i].about \in Lineage(nodes, head)
  /\ \A i, j \in told : i < j => chat[i].about <= chat[j].about

(* When the model is asked for the next change and the branch stands on    *)
(* the node that its last attempt made of the code in its reply, that reply*)
(* shows this code in full: what trimming leaves is the code the model is  *)
(* asked to change.  (A reply without code of its own, whose node has the  *)
(* parent's code, is the one that shows none.)  No other reply shows code. *)
LastAttemptInView ==
  pc = "asking" =>
    \A i \in AssistantTurns :
      IF IsLast(i, AssistantTurns)
      THEN /\ chat[i].about = nodes[head].attempt
           /\ nodes[head].code = Proposed(chat[i].about)
           => chat[i].code = nodes[head].code
      ELSE chat[i].code = NoCode

(* The "Current code" of a conversation's first message is the code of the *)
(* node the branch stands on.                                              *)
CurrentCodeIsHeads ==
  pc = "asking" /\ Last(chat).kind = "initial" => Last(chat).code = nodes[head].code

(* The "probe feedback from your last attempt on this branch" is about the *)
(* last attempt, unless that attempt raised and has no result at all.      *)
FeedbackOfLastResult ==
  pc = "asking" /\ Last(chat).kind = "feedback" =>
    \A i \in AssistantTurns :
      /\ IsLast(i, AssistantTurns)
      /\ \E n \in DOMAIN nodes : nodes[n].attempt = chat[i].about
      => nodes[Last(chat).about].attempt = chat[i].about
=============================================================================
