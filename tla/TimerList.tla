----------------------------- MODULE TimerList ------------------------------
(***************************************************************************)
(* The timer process of client() in tcpd.c: a delta list of timers, the    *)
(* loop around select() that reads "start" and "cancel" from the driver's  *)
(* pipe, and the arithmetic on struct timeval.                             *)
(*                                                                         *)
(* Three things are kept as the code has them, because the properties turn *)
(* on them: timeval_subtract changes its second operand; select() gets a   *)
(* pointer to the delta of the node that was the head after the last       *)
(* "start" and, on Linux, writes the time left into it; and lasttime is    *)
(* set only when the list is updated or was empty.  Time goes in ticks,    *)
(* Second of them in a second; handling a message takes no time.           *)
(***************************************************************************)
EXTENDS Integers, Sequences, SequencesExt

CONSTANTS Ids,         \* frame numbers
          Intervals,   \* the intervals of timers, in ticks
          Second,      \* ticks in a second: the 1000000 of tv_usec
          MaxTime,     \* bound on the clock
          None, Stale  \* values of timeout1 that are not nodes of the list

ASSUME TimeAssumption == /\ Second \in Nat \ {0}
                         /\ Intervals \subseteq Nat
                         /\ MaxTime \in Nat
                         /\ None # Stale /\ {None, Stale} \cap Ids = {}

VARIABLES now,        \* the clock
          lasttime,   \* when the list was last brought up to date
          list,       \* the nodes, head first: frame number, delta_time and,
                      \* as history, when the timer is meant to expire
          timeout1,   \* NULL, the frame of the node it points into, or Stale
          stale,      \* delta_time of the node it points to when out of the list
          running,    \* the process has not left its loop
          resent      \* the resend requests the last step wrote

vars == <<now, lasttime, list, timeout1, stale, running, resent>>

PosOf(id) == {k \in 1 .. Len(list) : list[k].id = id}

InList(id) == PosOf(id) # {}
-----------------------------------------------------------------------------
(* struct timeval *)
Timeval(t) == [sec |-> t \div Second, usec |-> t % Second]

Ticks(v) == v.sec * Second + v.usec

Plus(x, y) == [sec |-> x.sec + y.sec, usec |-> x.usec + y.usec]

Minus(x, y) == [sec |-> x.sec - y.sec, usec |-> x.usec - y.usec]

(* What timeval_subtract(.., x, y) leaves in y: the carry. *)
Carried(x, y) ==
  LET borrow == (y.usec - x.usec) \div Second + 1
      b == IF x.usec < y.usec
           THEN [sec |-> y.sec + borrow, usec |-> y.usec - Second * borrow]
           ELSE y
      carry == (x.usec - b.usec) \div Second
  IN  IF x.usec - b.usec > Second
      THEN [sec |-> b.sec - carry, usec |-> b.usec + Second * carry]
      ELSE b

(* What it returns: x is less than y. *)
Negative(x, y) == x.sec < Carried(x, y).sec

(* What it stores in its first operand. *)
Subtract(x, y) == Minus(x, Carried(x, y))
-----------------------------------------------------------------------------
(* Walking down the list with the time x: Left(x)[k] is what is left of it *)
(* after the first k nodes; Passes(x, m) if it is enough for m of them.    *)
Left(x) ==
  LET left[k \in 0 .. Len(list)] ==
        IF k = 0 THEN x ELSE Subtract(left[k - 1], list[k].delta)
  IN  left

Passes(x, m) ==
  /\ \A k \in 1 .. m : ~Negative(Left(x)[k - 1], list[k].delta)
  /\ m < Len(list) => Negative(Left(x)[m], list[m + 1].delta)

(* The list after the comparisons of that walk: the carries.               *)
Compared(x, m) ==
  [k \in 1 .. Len(list) |->
     IF k <= m + 1
     THEN [list[k] EXCEPT !.delta = Carried(Left(x)[k - 1], @)]
     ELSE list[k]]
-----------------------------------------------------------------------------
(* select() waits for what timeout1 points to. *)
TimeToWait ==
  IF timeout1 = Stale THEN stale
  ELSE list[CHOOSE k \in PosOf(timeout1) : TRUE].delta

Accepted(v) == v.sec >= 0 /\ v.usec >= 0

Selects == running /\ (timeout1 # None => Accepted(TimeToWait))

(* The time runs out now. *)
Expires == timeout1 # None /\ Ticks(TimeToWait) = 0

Init == /\ now = 0 /\ lasttime = 0
        /\ list = <<>>
        /\ timeout1 = None /\ stale = Timeval(0)
        /\ running = TRUE
        /\ resent = <<>>

AfterTick == Timeval(IF Expires THEN 0 ELSE Ticks(TimeToWait) - 1)

(* A tick passes in select(), which writes the time left where timeout1    *)
(* points.  With a zero timeout the list is first brought up to date.      *)
Tick == /\ Selects
        /\ now < MaxTime
        /\ Expires => lasttime = now
        /\ now' = now + 1
        /\ stale' = IF timeout1 = Stale THEN AfterTick ELSE stale
        /\ list' = [k \in 1 .. Len(list) |->
                      IF list[k].id = timeout1
                      THEN [list[k] EXCEPT !.delta = AfterTick] ELSE list[k]]
        /\ resent' = <<>>
        /\ UNCHANGED <<lasttime, timeout1, running>>

(* select() finds the time invalid and the process exits. *)
SelectFails == /\ running /\ ~Selects
               /\ running' = FALSE
               /\ resent' = <<>>
               /\ UNCHANGED <<now, lasttime, list, timeout1, stale>>
-----------------------------------------------------------------------------
(* add_timenode: the new node goes before the first one it is shorter than.*)
Insert(id, d) ==
  \E m \in 0 .. Len(list) :
    LET compared == Compared(Timeval(d), m)
        rest == Left(Timeval(d))[m]
        node(t) == [id |-> id, delta |-> t, due |-> now + d]
    IN  /\ Passes(Timeval(d), m)
        /\ list' =
             IF m = Len(list) THEN Append(compared, node(rest))
             ELSE LET next == compared[m + 1].delta
                  IN  InsertAt([compared EXCEPT
                                  ![m + 1].delta = Subtract(next, rest)],
                               m + 1, node(Carried(next, rest)))
        /\ lasttime' = IF list = <<>> THEN now ELSE lasttime

(* Mutant: a second node for a frame that has one.                         *)
StartDuplicate(id, d) ==
  /\ Selects
  /\ Insert(id, d)
  /\ timeout1' = Head(list').id
  /\ stale' = Timeval(0)
  /\ resent' = <<>>
  /\ UNCHANGED <<now, running>>

(* Mutant: timeout1 is set only when it is NULL.                           *)
StartUnpointed(id, d) ==
  /\ Selects
  /\ IF InList(id) THEN UNCHANGED <<list, lasttime>> ELSE Insert(id, d)
  /\ timeout1' = IF timeout1 = None THEN id ELSE timeout1
  /\ resent' = <<>>
  /\ UNCHANGED <<now, stale, running>>

(* A "start" message; one for a frame that has a timer adds nothing, but   *)
(* timeout1 points to the head again.                                      *)
Start(id, d) ==
  /\ Selects
  /\ IF InList(id) THEN UNCHANGED <<list, lasttime>> ELSE Insert(id, d)
  /\ timeout1' = Head(list').id
  /\ stale' = Timeval(0)
  /\ resent' = <<>>
  /\ UNCHANGED <<now, running>>

(* A "cancel" message: delete_timenode gives its time to the next node. *)
Cancel(id) ==
  /\ Selects
  /\ IF InList(id)
     THEN \E k \in PosOf(id) :
            LET longer == [j \in 1 .. Len(list) |->
                             IF j = k + 1
                             THEN [list[j] EXCEPT !.delta = Plus(@, list[k].delta)]
                             ELSE list[j]]
            IN  list' = RemoveAt(longer, k)
     ELSE UNCHANGED list
  /\ IF timeout1 = id
     THEN timeout1' = Stale /\ stale' = TimeToWait
     ELSE UNCHANGED <<timeout1, stale>>
  /\ resent' = <<>>
  /\ UNCHANGED <<now, lasttime, running>>

(* Mutant: the remaining head keeps its whole delta.                       *)
UpdateUnsubtracted ==
  /\ Selects /\ Expires
  /\ \E m \in 0 .. Len(list) :
       /\ Passes(Timeval(now - lasttime), m)
       /\ resent' = [k \in 1 .. m |-> list[k].id]
       /\ list' = SubSeq(list, m + 1, Len(list))
       /\ timeout1' = IF m = Len(list) THEN None ELSE Stale
       /\ stale' = Timeval(0)
  /\ lasttime' = now
  /\ UNCHANGED <<now, running>>

(* Mutant: a frame is asked for before its time is compared.               *)
UpdateOneMore ==
  /\ Selects /\ Expires
  /\ \E m \in 0 .. Len(list) :
       /\ Passes(Timeval(now - lasttime), m)
       /\ resent' = [k \in 1 .. (IF m < Len(list) THEN m + 1 ELSE m) |-> list[k].id]
       /\ list' = SubSeq(list, m + 1, Len(list))
       /\ timeout1' = IF m = Len(list) THEN None ELSE Stale
       /\ stale' = Timeval(0)
  /\ lasttime' = now
  /\ UNCHANGED <<now, running>>

(* select() returned 0: update_time_list asks for a resend of every frame  *)
(* whose time has come.                                                    *)
Update ==
  /\ Selects /\ Expires
  /\ \E m \in 0 .. Len(list) :
       LET x == Timeval(now - lasttime)
           compared == Compared(x, m)
       IN  /\ Passes(x, m)
           /\ resent' = [k \in 1 .. m |-> list[k].id]
           /\ list' = IF m = Len(list) THEN <<>>
                      ELSE SubSeq([compared EXCEPT ![m + 1].delta =
                                     Subtract(@, Left(x)[m])],
                                  m + 1, Len(list))
           /\ IF m = Len(list)
              THEN timeout1' = None /\ stale' = Timeval(0)
              ELSE \/ /\ \E k \in 1 .. m :
                           list[k].id = timeout1 /\ stale' = compared[k].delta
                      /\ timeout1' = Stale
                   \/ /\ \A k \in 1 .. m : list[k].id # timeout1
                      /\ UNCHANGED <<timeout1, stale>>
  /\ lasttime' = now
  /\ UNCHANGED <<now, running>>

Next == \/ Tick \/ SelectFails \/ Update
        \/ \E id \in Ids : Cancel(id) \/ \E d \in Intervals : Start(id, d)

Spec == Init /\ [][Next]_vars
-----------------------------------------------------------------------------
(* Type correctness; a frame has at most one node, and timeout1 points to  *)
(* one in the list or to one that is remembered.                           *)
TypeOK == /\ now \in 0 .. MaxTime /\ lasttime \in 0 .. now
          /\ list \in Seq([id : Ids, delta : [sec : Int, usec : Int], due : Nat])
          /\ \A i, j \in 1 .. Len(list) : list[i].id = list[j].id => i = j
          /\ timeout1 \in {None, Stale} \/ InList(timeout1)
          /\ list # <<>> => timeout1 # None
          /\ stale \in [sec : Int, usec : Int]
          /\ running \in BOOLEAN
          /\ resent \in Seq(Ids)

(* The process wakes up no later than its head is due by the list: what    *)
(* select() waits for is at most the head's delta, also when timeout1      *)
(* still points to a node that has been cancelled or has expired.          *)
SleepsNoLonger ==
  running /\ list # <<>> => Ticks(TimeToWait) <= Ticks(Head(list).delta)

(* Waits(l)[k]: how long the k-th timer of the list l waits, by the list.  *)
Waits(l) ==
  LET waits[k \in 0 .. Len(l)] ==
        IF k = 0 THEN 0 ELSE waits[k - 1] + Ticks(l[k].delta)
  IN  waits

(* By the list no timer runs longer than it was started for: neither the   *)
(* carries, nor a neighbour's removal, nor a lasttime older than its start *)
(* add to it.  So the next update finds every timer that is due.           *)
NoneTooLong ==
  \A k \in 1 .. Len(list) : lasttime + Waits(list)[k] <= list[k].due

(* A resend is asked for only when the timer has run out ("Retransmits     *)
(* corresponding packets if no ACK received before timeout", section 5 of  *)
(* the final report).                                                      *)
NeverEarly ==
  [][\A i \in 1 .. Len(resent') : now >= list[i].due]_vars

(* The time to wait has a tv_usec that is not negative ("tv_usec is        *)
(* certainly positive", tcpd.c:1313).                                      *)
WaitIsPositive == timeout1 # None => TimeToWait.usec >= 0

(* The process implements the timers the driver counts on. *)
Service == INSTANCE TimerService WITH
             armed <- {list[k].id : k \in 1 .. Len(list)},
             fired <- resent

ImplementsService == Service!Spec
=============================================================================
