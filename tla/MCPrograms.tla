----------------------------- MODULE MCPrograms -----------------------------
(***************************************************************************)
(* Small instances of the programs and parts that stand alone.  One of     *)
(* them is chosen in the beginning and runs; the others rest in their      *)
(* initial states, so that the states of all add up.                       *)
(***************************************************************************)
EXTENDS TcpdServer, TimerList, RttEstimator, Timmer, FtpStream, FtpDatagram, Count

CONSTANT MaxDelivered   \* no packet is received once this many are delivered

VARIABLE program

programVars == <<program, serverVars, vars, rttVars, timmerVars, streamVars,
                 datagramVars, countVars>>

(* Times in two seconds, close to each other, and one far ahead.           *)
SmallTimes == {[sec |-> 0, usec |-> 9], [sec |-> 1, usec |-> 0],
               [sec |-> 3, usec |-> 7]}

(* The texts of at most seven characters, and strings of one, two, three   *)
(* characters and of a whole chunk.                                        *)
Texts == UNION {[1 .. n -> Characters] : n \in 0 .. 7}
Strings == {<<"a">>, <<"a", "b">>, <<"a", "a", "a">>, <<"a", "a", "a", "a">>}

MCInit == /\ ServerInit /\ Init /\ RttInit /\ TimmerInit
          /\ StreamInit /\ DatagramInit /\ CountInit
          /\ program \in {"server", "timers", "estimator", "timmer", "lab2",
                         "project1", "count"}

(* The step of program p, all the others resting. *)
Only(p, Step) == /\ program = p /\ Step
                 /\ UNCHANGED program
                 /\ p # "server" => UNCHANGED serverVars
                 /\ p # "timers" => UNCHANGED vars
                 /\ p # "estimator" => UNCHANGED rttVars
                 /\ p # "timmer" => UNCHANGED timmerVars
                 /\ p # "lab2" => UNCHANGED streamVars
                 /\ p # "project1" => UNCHANGED datagramVars
                 /\ p # "count" => UNCHANGED countVars

MCNext == \/ Only("server", Len(delivered) < MaxDelivered /\ ServerNext)
          \/ Only("timers", Next)
          \/ Only("estimator", RttNext)
          \/ Only("timmer", TimmerNext)
          \/ Only("lab2", StreamNext)
          \/ Only("project1", DatagramNext)
          \/ Only("count", CountNext)

(* The fairness of the programs' own specifications. *)
MCSpec ==
  /\ MCInit /\ [][MCNext]_programVars
  /\ WF_programVars(Only("lab2", StreamServer))
  /\ WF_programVars(Only("lab2", StreamClient))
  /\ WF_programVars(Only("project1", FtpcSteps))
  /\ WF_programVars(Only("project1", DaemonTakes))
  /\ WF_programVars(Only("project1", DaemonGives))
  /\ WF_programVars(Only("project1", FtpsSteps))
  /\ WF_programVars(Only("count", CountNext))
=============================================================================
