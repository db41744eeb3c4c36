-------------------------------- MODULE S3Fifo --------------------------------
(***************************************************************************)
(* The seed policy seeds/s3_fifo.c: the callbacks the kernel calls when a  *)
(* page enters the page cache, is accessed, is reclaimed or leaves, with   *)
(* the two queues, the metadata map, the ghost map and the two counters    *)
(* that decide which queue is reclaimed from.                              *)
(*                                                                         *)
(* Callbacks run concurrently on many CPUs.  folio_added is three steps    *)
(* (count, queue, record), folio_accessed two, evict_folios one step per   *)
(* pass over a queue and per access to a counter; a pass is atomic because *)
(* the kernel iterates a list under its lock; it may fail between any two  *)
(* pages.  The kernel's lists and hash maps, what it decides to take out   *)
(* of the cache, when a page is dirty, under writeback or not yet read,    *)
(* and when an iteration fails are not part of the repository.  Pages that *)
(* are not watched never enter a queue and are left out.                   *)
(***************************************************************************)
EXTENDS Integers, Sequences, FiniteSets, SequencesExt

CONSTANTS
  Pages,        (* watched pages                                           *)
  CPUs,         (* threads that reclaim                                    *)
  CacheSize,    (* cache_size, in pages                                    *)
  SizeRange,    (* the number of values of size_t                          *)
  MaxRequest,   (* bound: the most pages one reclaim asks for              *)
  MaxAdds,      (* bound: calls of folio_added                             *)
  FreqFloor     (* bound: a frequency is not counted down further          *)

ASSUME S3Assumption ==
  /\ IsFiniteSet(Pages) /\ IsFiniteSet(CPUs)
  /\ CacheSize \in Nat /\ SizeRange \in Nat /\ CacheSize < SizeRange
  /\ MaxRequest \in Nat \ {0} /\ MaxAdds \in Nat
  /\ FreqFloor \in Int /\ FreqFloor < 0

VARIABLES
  cached,      (* the pages in the page cache                              *)
  small,       (* small_list, head first                                   *)
  main,        (* main_list                                                *)
  meta,        (* folio_metadata_map                                       *)
  hot,         (* pages whose access is about to store the highest freq    *)
  ghost,       (* ghost_map                                                *)
  smallSize,   (* small_list_size                                          *)
  mainSize,    (* main_list_size                                           *)
  adding,      (* the folio_added of each page                             *)
  reclaim,     (* the evict_folios of each CPU                             *)
  adds,        (* calls of folio_added so far                              *)
  failures,    (* those that counted a page and did not queue it           *)
  uncounted,   (* pages moved by passes that failed and did not count them *)
  overwritten  (* whether a counter's reset undid a concurrent update      *)

queues == <<small, main>>
sizes == <<smallSize, mainSize>>
records == <<meta, hot>>
history == <<adds, failures, uncounted>>
vars == <<cached, queues, records, ghost, sizes, adding, reclaim, history, overwritten>>

(* A frequency is above 3 from its increment until 3 is stored.            *)
Metadata == [freq : FreqFloor .. 4, inMain : BOOLEAN]
NotAdding == [step |-> "none", toMain |-> FALSE]
Idle == [step |-> "idle", pass |-> 0, need |-> 0, moved |-> 0, left |-> 0]

Init ==
  /\ cached \in SUBSET Pages
  /\ small = << >> /\ main = << >>
  /\ meta = [p \in {} |-> NotAdding] /\ hot = {}
  /\ ghost = {}
  /\ smallSize = 0 /\ mainSize = 0
  /\ adding = [p \in Pages |-> NotAdding]
  /\ reclaim = [c \in CPUs |-> Idle]
  /\ adds = 0 /\ failures = 0 /\ uncounted = 0 /\ overwritten = FALSE

Queued(p) == p \in ToSet(small) \cup ToSet(main)

(* The pages of a queue that are in S, in their order.  It is SelectSeq as *)
(* a recursive function, which the provers can reason about.               *)
Kept(queue, S) ==
  LET kept[n \in 0 .. Len(queue)] ==
        IF n = 0 THEN << >>
        ELSE IF queue[n] \in S THEN Append(kept[n - 1], queue[n]) ELSE kept[n - 1]
  IN  kept[Len(queue)]

Off(queue, p) == Kept(queue, Pages \ {p})

-----------------------------------------------------------------------------
(* folio_added.  The kernel also calls it for a page that is on a queue    *)
(* already, as the other seeds note ("readahead re-add").                  *)

Count(p) ==
  /\ adding[p].step = "none"
  /\ adds < MaxAdds
  /\ adds' = adds + 1
  /\ cached' = cached \cup {p}
  /\ ghost' = ghost \ {p}
  /\ adding' = [adding EXCEPT ![p] = [step |-> "queueing", toMain |-> p \in ghost]]
  /\ IF p \in ghost THEN mainSize' = mainSize + 1 /\ UNCHANGED smallSize
                    ELSE smallSize' = smallSize + 1 /\ UNCHANGED mainSize
  /\ UNCHANGED <<queues, records, reclaim, failures, uncounted, overwritten>>

(* The page is counted, and stays counted if it cannot be queued. *)
Enqueue(p) ==
  /\ adding[p].step = "queueing"
  /\ IF Queued(p)
       THEN /\ failures' = failures + 1
            /\ adding' = [adding EXCEPT ![p] = NotAdding]
            /\ UNCHANGED queues
       ELSE /\ adding' = [adding EXCEPT ![p].step = "recording"]
            /\ IF adding[p].toMain THEN main' = Append(main, p) /\ UNCHANGED small
                                   ELSE small' = Append(small, p) /\ UNCHANGED main
            /\ UNCHANGED failures
  /\ UNCHANGED <<cached, records, ghost, sizes, reclaim, adds, uncounted, overwritten>>

Record(p) ==
  /\ adding[p].step = "recording"
  /\ meta' = [q \in DOMAIN meta \cup {p} |->
                IF q = p THEN [freq |-> 0, inMain |-> adding[p].toMain] ELSE meta[q]]
  /\ adding' = [adding EXCEPT ![p] = NotAdding]
  /\ UNCHANGED <<cached, queues, hot, ghost, sizes, reclaim, history, overwritten>>

(* A page that cannot be recorded, the map being full, is taken off again. *)
RecordFails(p) ==
  /\ adding[p].step = "recording"
  /\ small' = Off(small, p) /\ main' = Off(main, p)
  /\ failures' = failures + 1
  /\ adding' = [adding EXCEPT ![p] = NotAdding]
  /\ UNCHANGED <<cached, records, ghost, sizes, reclaim, adds, uncounted, overwritten>>

-----------------------------------------------------------------------------

(* folio_accessed.  Accesses of one page do not overlap. *)
Accessed(p) ==
  /\ p \in DOMAIN meta \ hot
  /\ meta' = [meta EXCEPT ![p].freq = @ + 1]
  /\ hot' = IF meta'[p].freq > 3 THEN hot \cup {p} ELSE hot
  /\ UNCHANGED <<cached, queues, ghost, sizes, adding, reclaim, history, overwritten>>

(* Mutant of Capped: the frequency is left where it is. *)
Uncapped(freq) == freq

Capped(freq) == 3

(* The store undoes what a pass has taken off in between.                  *)
Cap(p) ==
  /\ p \in hot
  /\ meta' = [meta EXCEPT ![p].freq = Capped(@)]
  /\ hot' = hot \ {p}
  /\ UNCHANGED <<cached, queues, ghost, sizes, adding, reclaim, history, overwritten>>

(* Mutant of LeavesMain: judged by the frequency that promotes. *)
LeavesMainIfHot(p) == meta[p].freq > 1

LeavesMain(p) == meta[p].inMain

(* Mutant of Unrecorded: bpf_map_delete_elem is forgotten. *)
StillRecorded(p) == meta

Unrecorded(p) == [q \in DOMAIN meta \ {p} |-> meta[q]]

(* folio_evicted: the page leaves the cache, proposed by a pass or not, and *)
(* the kernel takes it off its queue.  The ghost map forgets as it likes;  *)
(* an access that is about to store writes to a record nobody reads.       *)
Evicted(p) ==
  /\ p \in cached /\ adding[p].step = "none"
  /\ cached' = cached \ {p}
  /\ small' = Off(small, p) /\ main' = Off(main, p)
  /\ \E forgotten \in SUBSET ghost : ghost' = {p} \cup (ghost \ forgotten)
  /\ IF p \in DOMAIN meta
       THEN IF LeavesMain(p) THEN mainSize' = mainSize - 1 /\ UNCHANGED smallSize
                             ELSE smallSize' = smallSize - 1 /\ UNCHANGED mainSize
       ELSE UNCHANGED sizes
  /\ meta' = Unrecorded(p) /\ hot' = hot \ {p}
  /\ UNCHANGED <<adding, reclaim, history, overwritten>>

-----------------------------------------------------------------------------
(* evict_folios. *)

(* A signed counter compared with a size_t. *)
AsSize(n) == n % SizeRange

ReclaimsSmall == AsSize(smallSize) >= CacheSize \div 15 \/ mainSize <= 2 * smallSize

At(c, step) == reclaim[c].step = step
Goto(c, step) == reclaim' = [reclaim EXCEPT ![c].step = step]

Choose(c) ==
  /\ At(c, "idle")
  /\ \E need \in 1 .. MaxRequest :
       reclaim' = [reclaim EXCEPT ![c] =
         [Idle EXCEPT !.step = IF ReclaimsSmall THEN "small" ELSE "main", !.need = need]]
  /\ UNCHANGED <<cached, queues, records, ghost, sizes, adding, history, overwritten>>

(* A pass visits the queue from its head until it has proposed as many     *)
(* pages as are still needed.                                              *)
Proposed(queue, n, evictable) == Cardinality({i \in 1 .. n : queue[i] \in evictable})

Visited(queue, evictable, need) ==
  CHOOSE n \in 0 .. Len(queue) :
    /\ n = Len(queue) \/ Proposed(queue, n, evictable) = need
    /\ \A k \in 0 .. n - 1 : Proposed(queue, k, evictable) < need

(* Pages that are not up to date, not on the kernel's own list, dirty or   *)
(* under writeback are passed over, and so are those without metadata.     *)
Eligible(busy) == DOMAIN meta \ busy

(* evict_small_cb's frequent pages. *)
Promoted(visited, busy) == {p \in visited \cap Eligible(busy) : meta[p].freq > 1}

(* evict_small over the first n pages: what is proposed goes to the tail   *)
(* of the small queue, all others, promoted or passed over, to that of the *)
(* main queue.                                                             *)
Proposable(busy) == {p \in Eligible(busy) : meta[p].freq <= 1}

MovedOn(n, busy) == Kept(SubSeq(small, 1, n), Pages \ Proposable(busy))

Sweep(n, busy) ==
  LET visited == SubSeq(small, 1, n)
  IN  /\ small' = SubSeq(small, n + 1, Len(small)) \o Kept(visited, Proposable(busy))
      /\ main' = main \o MovedOn(n, busy)
      /\ meta' = [p \in DOMAIN meta |->
                    [meta[p] EXCEPT !.inMain = @ \/ p \in Promoted(ToSet(visited), busy)]]

PassSmall(c) ==
  /\ At(c, "small")
  /\ \E busy \in SUBSET ToSet(small) :
       LET n == Visited(small, Proposable(busy), reclaim[c].need)
       IN  /\ Sweep(n, busy)
           /\ reclaim' = [reclaim EXCEPT ![c].step = "countSmall",
                                         ![c].moved = Len(MovedOn(n, busy))]
  /\ UNCHANGED <<cached, hot, ghost, sizes, adding, history, overwritten>>

(* The iteration fails somewhere on its way: evict_small returns, and what *)
(* was moved so far is never taken off one counter and added to the other. *)
SmallFails(c) ==
  /\ At(c, "small")
  /\ \E busy \in SUBSET ToSet(small) :
       \E n \in 0 .. Visited(small, Proposable(busy), reclaim[c].need) :
         /\ Sweep(n, busy)
         /\ uncounted' = uncounted + Len(MovedOn(n, busy))
  /\ reclaim' = [reclaim EXCEPT ![c] = Idle]
  /\ UNCHANGED <<cached, hot, ghost, sizes, adding, adds, failures, overwritten>>

(* The counters are adjusted after the pass: small_list_size is reset, in  *)
(* a store of its own, if it was negative before.                          *)
CountSmall(c) ==
  /\ At(c, "countSmall")
  /\ smallSize' = smallSize - reclaim[c].moved
  /\ reclaim' = [reclaim EXCEPT ![c].left = smallSize',
                                ![c].step = IF smallSize < 0 THEN "resetSmall" ELSE "countMain"]
  /\ UNCHANGED <<cached, queues, records, ghost, mainSize, adding, history, overwritten>>

(* Mutant of Reset: it is left negative. *)
NotReset(size) == size

Reset(size) == 0

ResetSmall(c) ==
  /\ At(c, "resetSmall")
  /\ smallSize' = Reset(smallSize)
  /\ overwritten' = (overwritten \/ smallSize # reclaim[c].left)
  /\ Goto(c, "countMain")
  /\ UNCHANGED <<cached, queues, records, ghost, mainSize, adding, history>>

CountMain(c) ==
  /\ At(c, "countMain")
  /\ mainSize' = mainSize + reclaim[c].moved
  /\ reclaim' = [reclaim EXCEPT ![c] =
       IF mainSize < 0 THEN [@ EXCEPT !.left = mainSize', !.step = "resetMain"] ELSE Idle]
  /\ UNCHANGED <<cached, queues, records, ghost, smallSize, adding, history, overwritten>>

ResetMain(c) ==
  /\ At(c, "resetMain")
  /\ mainSize' = reclaim[c].moved
  /\ overwritten' = (overwritten \/ mainSize # reclaim[c].left)
  /\ reclaim' = [reclaim EXCEPT ![c] = Idle]
  /\ UNCHANGED <<cached, queues, records, ghost, smallSize, adding, history>>

(* evict_main: up to four passes, each proposing pages a little less cold. *)
(* A pass cools every page it visits and is able to propose.               *)
Cooled(p) == [meta[p] EXCEPT !.freq = IF @ > FreqFloor THEN @ - 1 ELSE @]

(* The first n pages of the main queue are visited and go to its tail.     *)
Turn(n, busy) ==
  LET visited == SubSeq(main, 1, n)
  IN  /\ main' = SubSeq(main, n + 1, Len(main)) \o visited
      /\ meta' = [p \in DOMAIN meta |->
                    IF p \in ToSet(visited) \ busy THEN Cooled(p) ELSE meta[p]]

Cold(pass, busy) == {p \in Eligible(busy) : Cooled(p).freq < pass}

PassMain(c) ==
  /\ At(c, "main")
  /\ \E busy \in SUBSET ToSet(main) :
       LET pass == reclaim[c].pass
           n    == Visited(main, Cold(pass, busy), reclaim[c].need)
           need == reclaim[c].need - Proposed(main, n, Cold(pass, busy))
       IN  /\ Turn(n, busy)
           /\ reclaim' = [reclaim EXCEPT ![c] =
                IF need = 0 \/ pass = 3 THEN Idle ELSE [@ EXCEPT !.need = need, !.pass = pass + 1]]
  /\ UNCHANGED <<cached, small, hot, ghost, sizes, adding, history, overwritten>>

(* The iteration fails somewhere on its way, and evict_main returns.       *)
MainFails(c) ==
  /\ At(c, "main")
  /\ \E busy \in SUBSET ToSet(main) :
       \E n \in 0 .. Visited(main, Cold(reclaim[c].pass, busy), reclaim[c].need) : Turn(n, busy)
  /\ reclaim' = [reclaim EXCEPT ![c] = Idle]
  /\ UNCHANGED <<cached, small, hot, ghost, sizes, adding, history, overwritten>>

Reclaim(c) ==
  Choose(c) \/ PassSmall(c) \/ SmallFails(c) \/ CountSmall(c) \/ ResetSmall(c)
  \/ CountMain(c) \/ ResetMain(c) \/ PassMain(c) \/ MainFails(c)

Add(p) == Enqueue(p) \/ Record(p) \/ RecordFails(p)

Next ==
  \/ \E c \in CPUs : Reclaim(c)
  \/ \E p \in Pages : Count(p) \/ Add(p) \/ Accessed(p) \/ Cap(p) \/ Evicted(p)

Spec == Init /\ [][Next]_vars

(* A callback that has begun comes to its end, and reclaim goes on.        *)
Fairness ==
  /\ \A c \in CPUs : WF_vars(Reclaim(c))
  /\ \A p \in Pages : WF_vars(Add(p)) /\ WF_vars(Cap(p))

FairSpec == Spec /\ Fairness

-----------------------------------------------------------------------------
(* Properties. *)

TypeOK ==
  /\ cached \in SUBSET Pages
  /\ small \in Seq(Pages) /\ main \in Seq(Pages)
  /\ DOMAIN meta \subseteq cached /\ hot \subseteq DOMAIN meta
  /\ \A p \in DOMAIN meta : meta[p] \in Metadata /\ (meta[p].freq > 3 => p \in hot)
  /\ ghost \in SUBSET Pages
  /\ smallSize \in Int /\ mainSize \in Int
  /\ adding \in [Pages -> [step : {"none", "queueing", "recording"}, toMain : BOOLEAN]]
  /\ reclaim \in [CPUs -> [step : {"idle", "small", "main", "countSmall", "resetSmall",
                                   "countMain", "resetMain"},
                           pass : 0 .. 3, need : 0 .. MaxRequest, moved : Nat, left : Int]]
  /\ adds \in 0 .. MaxAdds /\ failures \in 0 .. adds /\ uncounted \in Nat /\ overwritten \in BOOLEAN

(* Every recorded page is on exactly one queue, once, and a page marked as *)
(* in the main queue is on it, whatever passes run while pages are added,  *)
(* recorded, fail to be recorded and leave.                                *)
QueuesSound ==
  /\ IsInjective(small \o main)
  /\ \A p \in DOMAIN meta : Queued(p)
  /\ \A p \in DOMAIN meta : meta[p].inMain => p \in ToSet(main)

(* What is counted and not queued yet, and what passes have moved and have *)
(* not counted yet.                                                        *)
Arriving(toMain) ==
  Cardinality({p \in Pages : adding[p] = [step |-> "queueing", toMain |-> toMain]})

Moves(steps) ==
  UNION {{c} \X (1 .. reclaim[c].moved) : c \in {d \in CPUs : reclaim[d].step \in steps}}

Moved(steps) == Cardinality(Moves(steps))

(* small_list_size never exceeds what is or was about to be in the small   *)
(* queue by more than the additions that failed and the pages that failed  *)
(* passes moved, and main_list_size never falls short of the main queue by *)
(* more than those pages unless a reset undid a concurrent update.         *)
SizesBound ==
  /\ smallSize <= Len(small) + Arriving(FALSE) + Moved({"countSmall"}) + failures + uncounted
  /\ ~ overwritten =>
       Len(main) <= mainSize + Moved({"countSmall", "resetSmall", "countMain"}) + uncounted

(* When only the main queue holds pages, reclaim comes to look at it, even *)
(* after small_list_size went negative and compared as a huge size, unless *)
(* passes over the small queue fail again and again, an addition failed or *)
(* a failed pass moved pages without counting them.                        *)
MainNotStarved ==
  \/ []<><<\E c \in CPUs : SmallFails(c)>>_vars
  \/ small = << >> /\ main # << >> ~>
       \/ small # << >> \/ main = << >> \/ failures > 0 \/ uncounted > 0 \/ overwritten
       \/ \E c \in CPUs : At(c, "main")
=============================================================================
