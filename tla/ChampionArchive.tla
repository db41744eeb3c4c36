--------------------------- MODULE ChampionArchive ---------------------------
(***************************************************************************)
(* What the coordinator's bookkeeping promises, without its rounds,        *)
(* threads, branches and reviews: everything evaluated is logged, the      *)
(* champion is at all times the earliest of the best eligible entries, and *)
(* the committed log, which is all a crash leaves, only ever grows.        *)
(***************************************************************************)
EXTENDS Integers, Sequences, SequencesExt

VARIABLES
  log,        (* the entries of this session and of those it resumes       *)
  champion,   (* position of the champion in the log, 0 if there is none   *)
  committed,  (* the log as last committed                                 *)
  readable    (* FALSE while a commit is under way, and after it was cut   *)

avars == <<log, champion, committed, readable>>

Contenders(l) == {i \in 1 .. Len(l) : l[i].eligible}

Beats(l, i, j) == l[i].score > l[j].score \/ (l[i].score = l[j].score /\ i <= j)

ChampionOf(l) ==
  IF Contenders(l) = {} THEN 0
  ELSE CHOOSE i \in Contenders(l) : \A j \in Contenders(l) : Beats(l, i, j)

Init == log = << >> /\ champion = 0 /\ committed = << >> /\ readable = TRUE

Record ==
  /\ Len(log') = Len(log) + 1
  /\ IsPrefix(log, log')
  /\ champion' = ChampionOf(log')
  /\ UNCHANGED <<committed, readable>>

BeginCommit ==
  /\ readable' = FALSE
  /\ UNCHANGED <<log, champion, committed>>

EndCommit ==
  /\ ~ readable
  /\ IsPrefix(committed, log)
  /\ committed' = log
  /\ readable' = TRUE
  /\ UNCHANGED <<log, champion>>

Forget ==
  /\ log' = << >>
  /\ champion' = 0
  /\ UNCHANGED <<committed, readable>>

Recover ==
  /\ log = << >>
  /\ readable
  /\ log' = committed
  /\ champion' = ChampionOf(committed)
  /\ UNCHANGED <<committed, readable>>

Next == Record \/ BeginCommit \/ EndCommit \/ Forget \/ Recover

Spec == Init /\ [][Next]_avars
=============================================================================
