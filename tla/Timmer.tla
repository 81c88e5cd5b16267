------------------------------- MODULE Timmer -------------------------------
(***************************************************************************)
(* The first timer process, proj1/timmer.c, before it became a part of     *)
(* tcpd.c.  A driver writes "start", "cancel" and "stop" into a pipe.  The *)
(* process keeps the running timers in a doubly linked list, in the order  *)
(* they expire, each with the time after the one before it.  It looks at   *)
(* its list when a message comes and when the time it has for all its      *)
(* select()s is used up; then it ends.                                     *)
(*                                                                         *)
(* A node is the number of the start it was made for: nothing is freed, so *)
(* malloc returns fresh pages, all zero, and a node that left the list can *)
(* still be read and written.  An amount of time is a number; no time goes *)
(* by between select() and the end of the iteration.                       *)
(***************************************************************************)
EXTENDS Integers, Sequences, SequencesExt

CONSTANTS TimerIds,   \* the ids the driver uses
          Lengths,    \* the lengths of its timers
          Patience,   \* the 5.5 seconds of the select()s
          MaxStarts   \* bound on the starts that make a node

ASSUME TimmerAssumption == /\ Lengths \subseteq Nat /\ Patience \in Nat
                           /\ MaxStarts \in Nat

Null == 0
Nodes == 1 .. MaxStarts
Pointers == Nodes \cup {Null}

VARIABLES process,    \* "new" | "running" | "stopped" | "crashed"
          clock,      \* from 1: lastUpdate = 0 stands for never
          patience,   \* what select() left of its timeout
          head,
          next, forward, delta, id,   \* the fields of the nodes
          lastUpdate,
          made,       \* nodes made so far
          due,        \* history: when the running timers are to expire,
          misled      \* and if a forward pointer out of the list was followed

links == <<next, forward, id, made, misled>>
timmerVars == <<process, clock, patience, head, next, forward, delta, id,
                lastUpdate, made, due, misled>>

Unset == [n \in Nodes |-> 0]

TimmerInit ==
  /\ process = "new" /\ clock = 1 /\ patience = Patience
  /\ head = Null /\ lastUpdate = 0 /\ made = 0
  /\ next = Unset /\ forward = Unset /\ delta = Unset /\ id = Unset
  /\ due = <<>> /\ misled = FALSE
-----------------------------------------------------------------------------
(* The nodes from n on. *)
Chain[n \in Pointers] == IF n = Null THEN <<>> ELSE <<n>> \o Chain[next[n]]

Elapsed == IF lastUpdate = 0 THEN 0 ELSE clock - lastUpdate

(* update_time_list's loop: the first node from n on that elapsed does not *)
(* use up, and what remains of elapsed.                                    *)
Remaining[n \in Pointers] ==
  [elapsed \in Nat |->
     IF n = Null \/ elapsed < delta[n] THEN <<n, elapsed>>
     ELSE Remaining[next[n]][elapsed - delta[n]]]

First == Remaining[head][Elapsed][1]

Updated == IF First = Null THEN delta
           ELSE [delta EXCEPT ![First] = @ - Remaining[head][Elapsed][2]]

(* The timers before First have expired, which every wakeup does first. *)
Expired == ToSet(Chain[head]) \ ToSet(Chain[First])
Without(gone) == Restrict(due, DOMAIN due \ gone)

(* The process is followed until it is misled: from then on the list goes  *)
(* wrong without bound.                                                    *)
Followed == process \in {"new", "running"} /\ ~misled

(* The process ends and its memory with it. *)
Ends(how) ==
  /\ process' = how /\ head' = Null /\ lastUpdate' = 0 /\ made' = 0
  /\ next' = Unset /\ forward' = Unset /\ delta' = Unset /\ id' = Unset
  /\ due' = <<>> /\ UNCHANGED <<clock, patience, misled>>

(* The first update reads the head before anything was assigned to it: it  *)
(* is NULL, as TimmerInit has it, or any address.                          *)
CrashAtOnce == process = "new" /\ Ends("crashed")

(* On "stop", or because its time is used up. *)
Stop == Followed /\ Ends("stopped")

(* A tick in select(), which writes back the time left. *)
WaitATick == /\ Followed /\ patience > 0
             /\ clock' = clock + 1 /\ patience' = patience - 1
             /\ UNCHANGED <<process, head, delta, lastUpdate, due>>
             /\ UNCHANGED links

(* A start of an id that is still running, or a cancel of one that is not. *)
Refuse == /\ head' = First /\ delta' = Updated /\ due' = Without(Expired)
          /\ UNCHANGED links
-----------------------------------------------------------------------------
Listed(i) == {n \in ToSet(Chain[First]) : id[n] = i}

(* add_timenode's loop: where a timer of length t goes from node n on, and *)
(* how long after the node before it.                                      *)
Place[n \in Nodes] ==
  [t \in Nat |->
     IF t < Updated[n] THEN <<"before", n, t>>
     ELSE IF next[n] = Null THEN <<"after", n, t - Updated[n]>>
     ELSE Place[next[n]][t - Updated[n]]]

InsertAlone(new, t) == /\ head' = new
                       /\ delta' = [Updated EXCEPT ![new] = t]
                       /\ UNCHANGED <<next, forward, misled>>

InsertFirst(new, t) ==
  /\ head' = new
  /\ delta' = [Updated EXCEPT ![new] = t, ![First] = @ - t]
  /\ next' = [next EXCEPT ![new] = First]
  /\ forward' = [forward EXCEPT ![First] = new]
  /\ UNCHANGED misled

InsertLast(new, n, t) == /\ head' = First
                         /\ delta' = [Updated EXCEPT ![new] = t]
                         /\ next' = [next EXCEPT ![n] = new]
                         /\ forward' = [forward EXCEPT ![new] = n]
                         /\ UNCHANGED misled

(* The node before n, as n has it; delete_timenode does not keep it. *)
Misleads(n) == forward[n] \notin ToSet(Chain[First])

(* Mutant: n does not learn of the new node before it.                     *)
InsertBeforeForgotten(new, n, t) ==
  /\ head' = First
  /\ delta' = [Updated EXCEPT ![new] = t, ![n] = @ - t]
  /\ next' = [next EXCEPT ![forward[n]] = new, ![new] = n]
  /\ forward' = [forward EXCEPT ![new] = forward[n]]
  /\ misled' = (misled \/ Misleads(n))

InsertBefore(new, n, t) ==
  /\ head' = First
  /\ delta' = [Updated EXCEPT ![new] = t, ![n] = @ - t]
  /\ next' = [next EXCEPT ![forward[n]] = new, ![new] = n]
  /\ forward' = [forward EXCEPT ![new] = forward[n], ![n] = new]
  /\ misled' = (misled \/ Misleads(n))

(* Mutant: a new timer is put in front of the list.                        *)
InsertUnsorted(new, t) ==
  IF First = Null THEN InsertAlone(new, t) ELSE InsertFirst(new, t)

InsertTimer(new, t) ==
  IF First = Null THEN InsertAlone(new, t)
  ELSE IF t < Updated[First] THEN InsertFirst(new, t)
  ELSE LET place == Place[First][t]
       IN  IF place[1] = "before" THEN InsertBefore(new, place[2], place[3])
           ELSE InsertLast(new, place[2], place[3])

(* "start": a timer of length t for id i. *)
StartTimer(i, t) ==
  /\ Followed /\ process' = "running"
  /\ lastUpdate' = clock
  /\ \/ Listed(i) # {} /\ Refuse
     \/ /\ Listed(i) = {} /\ made < MaxStarts
        /\ InsertTimer(made + 1, t)
        /\ made' = made + 1
        /\ id' = [id EXCEPT ![made + 1] = i]
        /\ due' = [n \in (DOMAIN due \ Expired) \cup {made + 1} |->
                     IF n = made + 1 THEN clock + t ELSE due[n]]
  /\ UNCHANGED <<clock, patience>>
-----------------------------------------------------------------------------
(* Mutant: the time of the cancelled timer is not given to the next one.   *)
MergedLost(n) == Updated

(* delta after node n is taken out: its time goes to the next one. *)
Merged(n) == IF next[n] = Null THEN Updated
             ELSE [Updated EXCEPT ![next[n]] = @ + Updated[n]]

RemoveHead == /\ head' = next[First]
              /\ delta' = Merged(First)
              /\ UNCHANGED <<next, misled>>

RemoveLater(n) == /\ head' = First
                  /\ delta' = Merged(n)
                  /\ next' = [next EXCEPT ![forward[n]] = next[n]]
                  /\ misled' = (misled \/ Misleads(n))

(* A "cancel" reads the head even if there is none. *)
CancelOfNone == Followed /\ First = Null /\ Ends("crashed")

(* "cancel" of id i, listed or not. *)
CancelTimer(i) ==
  /\ Followed
  /\ lastUpdate' = clock
  /\ First # Null /\ process' = "running"
  /\ \/ Listed(i) = {} /\ Refuse
     \/ \E n \in Listed(i) :
          /\ IF n = First THEN RemoveHead ELSE RemoveLater(n)
          /\ due' = Without(Expired \cup {n})
          /\ UNCHANGED <<forward, id, made>>
  /\ UNCHANGED <<clock, patience>>

TimmerNext == \/ CrashAtOnce
              \/ WaitATick
              \/ Stop
              \/ \E i \in TimerIds, t \in Lengths : StartTimer(i, t)
              \/ CancelOfNone
              \/ \E i \in TimerIds : CancelTimer(i)

TimmerSpec == TimmerInit /\ [][TimmerNext]_timmerVars
-----------------------------------------------------------------------------
(* Type correctness: a time after another is never negative. *)
TimmerTypeOK ==
  /\ process \in {"new", "running", "stopped", "crashed"}
  /\ {head} \cup {next[n] : n \in Nodes} \cup {forward[n] : n \in Nodes}
       \subseteq Pointers
  /\ \A n \in Nodes : delta[n] >= 0
  /\ made \in 0 .. MaxStarts /\ lastUpdate \in 0 .. clock
  /\ misled \in BOOLEAN

(* The times from the head to each listed timer add up to the time it is   *)
(* due, the head's from the last update and each other from the one before *)
(* it, through any starts, expiries and cancels, until a node whose        *)
(* forward pointer leads out of the list has been followed: cancelling a   *)
(* timer in the middle leaves the next one such a pointer, and a later     *)
(* start in front of that one, or its cancel, is lost in it.               *)
TimesAddUp ==
  LET list == Chain[head]
  IN  ~misled =>
        \A k \in 1 .. Len(list) :
          /\ list[k] \in DOMAIN due
          /\ due[list[k]] = delta[list[k]] + (IF k = 1 THEN lastUpdate
                                                       ELSE due[list[k - 1]])

(* Until then the list holds the running timers: none started is lost, no  *)
(* cancelled one comes back, and none has expired but stayed.              *)
ListsTheRunning ==
  ~misled => ToSet(Chain[head]) = DOMAIN due
=============================================================================
