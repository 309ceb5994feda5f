----------------------------- MODULE MpiMessages -----------------------------
(***************************************************************************)
(* Five MPI programs of a few messages, over the send, receive and barrier *)
(* of mpi_wrapper/include/Mpi.hpp:                                         *)
(*   send_recv_urd      greetings sent to process 0, received from anyone, *)
(*   send_recv_ord_itm  the same, received from each process in turn,      *)
(*   send_recv_ord_sem  each greets when the previous one says so,         *)
(*   mpi_relay_race     teams of two processes and a referee,              *)
(*   mpi_ping_pong      two processes and a ball, for ever.                *)
(*                                                                         *)
(* Messages between two processes keep their order and none is lost.       *)
(* MPI_Send returns when the message was received, or before (buffered).   *)
(***************************************************************************)
EXTENDS Integers, Sequences, FiniteSets

CONSTANTS
  MpiPrograms,
  ProcessCounts,         (* of mpiexec -np                                 *)
  MaxBall                (* where the endless game is left                 *)

MpiAssumption ==
  /\ MpiPrograms \subseteq {"mpi_relay_race", "mpi_ping_pong", "send_recv_urd",
                            "send_recv_ord_itm", "send_recv_ord_sem"}
  /\ ProcessCounts \subseteq Nat \ {0} /\ MaxBall \in Nat

VARIABLES
  mpi_program, process_count,
  rank_place,            (* where each process is                          *)
  value,                 (* the last value received                        *)
  channel,               (* the messages in transit between two processes  *)
  output                 (* what the processes printed, in order           *)

messageVars == <<mpi_program, process_count, rank_place, value, channel, output>>

Rank == 0 .. process_count - 1
FIRST_PROCESS == 0

Init ==
  /\ mpi_program = "none" /\ process_count = 0
  /\ rank_place = <<>> /\ value = <<>> /\ channel = <<>> /\ output = <<>>

Launch ==
  /\ process_count = 0
  /\ mpi_program' \in MpiPrograms /\ process_count' \in ProcessCounts
  /\ rank_place' = [r \in Rank' |-> "start"]
  /\ value' = [r \in Rank' |-> 0]
  /\ channel' = [pair \in Rank' \X Rank' |-> <<>>]
  /\ UNCHANGED output

GoTo(r, place) == rank_place' = [rank_place EXCEPT ![r] = place]

-----------------------------------------------------------------------------
(* The messages of each program *)

Destination(r) ==
  CASE mpi_program = "mpi_relay_race" -> IF r % 2 = 1 THEN r + 1 ELSE FIRST_PROCESS
    [] mpi_program = "mpi_ping_pong" -> (r + 1) % 2
    [] mpi_program = "send_recv_ord_sem" -> r + 1
    [] OTHER -> FIRST_PROCESS

\* A baton or permission, the number of a team, a greeting or the ball.
Content(r) ==
  CASE mpi_program = "mpi_relay_race" -> IF r % 2 = 1 THEN 1 ELSE r \div 2
    [] mpi_program = "mpi_ping_pong" -> value[r] + 1
    [] mpi_program = "send_recv_ord_sem" -> 1
    [] OTHER -> r

\* The source of the next receive, or all of them for MPI_ANY_SOURCE.
Sources(r) ==
  CASE mpi_program = "send_recv_ord_itm" -> {Len(output)}
    [] mpi_program = "send_recv_ord_sem" \/ (mpi_program = "mpi_relay_race" /\ r # FIRST_PROCESS) -> {r - 1}
    [] OTHER -> Rank

\* The lines that process 0 prints in its loop, its own greeting included.
Lines == IF mpi_program = "mpi_relay_race" THEN (process_count - 1) \div 2 ELSE process_count

-----------------------------------------------------------------------------

\* main up to the first message.
Start(r) ==
  LET first == r = FIRST_PROCESS
  IN
  /\ rank_place[r] = "start"
  /\ GoTo(r, CASE mpi_program = "mpi_relay_race" ->
                    IF process_count >= 3 /\ process_count % 2 = 1 THEN "barrier" ELSE "done"
               [] mpi_program = "mpi_ping_pong" ->
                    IF process_count # 2 THEN "done" ELSE IF first THEN "send" ELSE "receive"
               [] mpi_program = "send_recv_ord_sem" -> IF first THEN "greet" ELSE "receive"
               [] OTHER ->
                    IF ~first THEN "send" ELSE IF Lines = 1 THEN "done" ELSE "receive")
  /\ output' = IF first /\ (mpi_program \in {"send_recv_urd", "send_recv_ord_itm"}
                            \/ (mpi_program = "mpi_ping_pong" /\ process_count = 2))
                 THEN Append(output, value[r]) ELSE output
  /\ UNCHANGED <<mpi_program, process_count, value, channel>>

\* mpi.barrier(), then one of the three parts of relay_race.
Barrier(r) ==
  /\ rank_place[r] = "barrier" /\ \A q \in Rank : rank_place[q] # "start"
  /\ GoTo(r, IF r % 2 = 1 THEN "send" ELSE "receive")
  /\ UNCHANGED <<mpi_program, process_count, value, channel, output>>

Send(r) ==
  /\ rank_place[r] = "send"
  /\ mpi_program = "mpi_ping_pong" => value[r] < MaxBall
  /\ channel' = [channel EXCEPT ![<<r, Destination(r)>>] = Append(@, Content(r))]
  /\ GoTo(r, "sending")
  /\ UNCHANGED <<mpi_program, process_count, value, output>>

SendReturns(r) ==
  /\ rank_place[r] = "sending"
  /\ GoTo(r, IF mpi_program = "mpi_ping_pong" THEN "receive" ELSE "done")
  /\ UNCHANGED <<mpi_program, process_count, value, channel, output>>

Receive(r) ==
  /\ rank_place[r] = "receive"
  /\ \E source \in Sources(r) :
       /\ channel[<<source, r>>] # <<>>
       /\ value' = [value EXCEPT ![r] = Head(channel[<<source, r>>])]
       /\ channel' = [channel EXCEPT ![<<source, r>>] = Tail(@)]
  /\ CASE mpi_program = "send_recv_ord_sem" -> GoTo(r, "greet") /\ UNCHANGED output
       [] mpi_program = "mpi_relay_race" /\ r # FIRST_PROCESS -> GoTo(r, "send") /\ UNCHANGED output
       [] OTHER ->
            /\ output' = Append(output, value'[r])
            /\ GoTo(r, IF mpi_program = "mpi_ping_pong" THEN "send"
                       ELSE IF Len(output') = Lines THEN "done" ELSE "receive")
  /\ UNCHANGED <<mpi_program, process_count>>

\* send_recv_ord_sem: the last process sends nothing.
Greet(r) ==
  /\ rank_place[r] = "greet"
  /\ output' = Append(output, r)
  /\ GoTo(r, IF r + 1 < process_count THEN "send" ELSE "done")
  /\ UNCHANGED <<mpi_program, process_count, value, channel>>

\* What a process does by itself: a send that is not buffered waits to be received.
ProcessStep(r) ==
  /\ r \in Rank
  /\ \/ Start(r) \/ Barrier(r) \/ Send(r) \/ Receive(r) \/ Greet(r)
     \/ (SendReturns(r) /\ channel[<<r, Destination(r)>>] = <<>>)

MessagesEnd ==
  process_count > 0 /\ \A r \in Rank :
    rank_place[r] = "done" \/ (mpi_program = "mpi_ping_pong" /\ \E q \in Rank : value[q] = MaxBall)

Next ==
  \/ Launch
  \/ \E r \in Rank : ProcessStep(r) \/ SendReturns(r)
  \/ MessagesEnd /\ UNCHANGED messageVars

Spec == Init /\ [][Next]_messageVars

-----------------------------------------------------------------------------
(* Properties *)

\* The greetings of the two ordered programs come by rank, those of send_recv_urd
\* once each after that of process 0; the referee gives a place to each team, once
\* both its runners have run; the ball is hit in turns and no hit is missed.  When
\* the processes have ended every line is printed and no message is left.
MessagesInOrder ==
  LET started(r) == rank_place[r] \notin {"start", "barrier", "receive", "send"}
      once == \A i, j \in DOMAIN output : output[i] = output[j] => i = j
  IN CASE mpi_program \in {"send_recv_ord_itm", "send_recv_ord_sem"} -> \A i \in DOMAIN output : output[i] = i - 1
       [] mpi_program = "send_recv_urd" -> once /\ (output # <<>> => output[1] = 0)
       [] mpi_program = "mpi_relay_race" ->
            once /\ \A i \in DOMAIN output :
                      started(2 * output[i]) /\ started(2 * output[i] - 1)
       [] mpi_program = "mpi_ping_pong" ->
            /\ \A i \in DOMAIN output : output[i] = i - 1
            /\ Cardinality({r \in Rank : rank_place[r] = "send"}) <= 1
       [] OTHER -> TRUE

NoMessageLeft ==
  MessagesEnd =>
    /\ \A pair \in DOMAIN channel : channel[pair] = <<>>
    /\ mpi_program \in {"send_recv_urd", "send_recv_ord_itm", "send_recv_ord_sem"} => Len(output) = process_count
    /\ mpi_program = "mpi_relay_race" /\ process_count >= 3 /\ process_count % 2 = 1 =>
         Len(output) = Lines

-----------------------------------------------------------------------------
(* The inductive invariant *)

TypeOK ==
  /\ process_count \in Nat /\ mpi_program \in {"none"} \cup MpiPrograms
  /\ rank_place \in [Rank -> {"start", "barrier", "send", "sending", "receive", "greet", "done"}]
  /\ value \in [Rank -> Nat]
  /\ channel \in [Rank \X Rank -> Seq(Nat)]
  /\ output \in Seq(Nat)
  /\ process_count = 0 => output = <<>>
  /\ \A r \in Rank : rank_place[r] = "start" => value[r] = 0

Printed(v) == \E i \in DOMAIN output : output[i] = v
PrintedOnce == \A i, j \in DOMAIN output : output[i] = output[j] => i = j
PrintedInOrder == \A i \in DOMAIN output : output[i] = i - 1

\* send_recv_urd and send_recv_ord_itm: a greeting is in its channel or printed.
GreetingsInv ==
  /\ PrintedOnce
  /\ mpi_program = "send_recv_ord_itm" => PrintedInOrder
  /\ \A i \in DOMAIN output : output[i] \in Rank
  /\ output # <<>> => output[1] = 0
  /\ \A r, q \in Rank : channel[<<r, q>>] # <<>> =>
       q = 0 /\ r # 0 /\ channel[<<r, q>>] = <<r>> /\ rank_place[r] \in {"sending", "done"}
  /\ \A r \in Rank :
       IF r = 0 THEN /\ rank_place[r] \in {"start", "receive", "done"}
                     /\ rank_place[r] = "start" <=> output = <<>>
                     /\ rank_place[r] = "receive" => Len(output) < process_count
                     /\ rank_place[r] = "done" => Len(output) = process_count
       ELSE /\ rank_place[r] \in {"start", "send", "sending", "done"}
            /\ Printed(r) <=> rank_place[r] \in {"sending", "done"} /\ channel[<<r, 0>>] = <<>>

\* send_recv_ord_sem: those that have greeted are the first ones.
PermissionInv ==
  /\ PrintedInOrder
  /\ \A r, q \in Rank : channel[<<r, q>>] # <<>> =>
       /\ q = r + 1 /\ channel[<<r, q>>] = <<1>>
       /\ rank_place[r] \in {"sending", "done"} /\ rank_place[q] \in {"start", "receive"}
  /\ Len(output) <= process_count
  /\ \A r \in Rank :
       /\ rank_place[r] # "barrier"
       /\ r < Len(output) <=> rank_place[r] \in {"send", "sending", "done"}
       /\ rank_place[r] \in {"send", "sending"} => r + 1 < process_count
       /\ rank_place[r] = "receive" => r # 0
       /\ r # 0 /\ rank_place[r] \notin {"start", "receive"} => rank_place[r - 1] \in {"sending", "done"}

\* mpi_relay_race: a team has its place once both its runners have run.
RaceInv ==
  LET odd(r) == r % 2 = 1
  IN IF process_count >= 3 /\ odd(process_count)
     THEN /\ PrintedOnce /\ \A i \in DOMAIN output : output[i] \in 1 .. Lines
          /\ \A r, q \in Rank : channel[<<r, q>>] # <<>> =>
               /\ rank_place[r] \in {"sending", "done"}
               /\ IF odd(r) THEN /\ q = r + 1 /\ channel[<<r, q>>] = <<1>>
                                 /\ rank_place[q] \in {"start", "barrier", "receive"}
                  ELSE q = 0 /\ r # 0 /\ channel[<<r, q>>] = <<r \div 2>>
          /\ \A r \in Rank :
               /\ r = 0 => /\ rank_place[r] \in {"start", "barrier", "receive", "done"}
                           /\ IF rank_place[r] = "done" THEN Len(output) = Lines ELSE Len(output) < Lines
               /\ odd(r) => rank_place[r] \in {"start", "barrier", "send", "sending", "done"}
               /\ r # 0 /\ ~odd(r) =>
                    /\ rank_place[r] # "greet"
                    /\ rank_place[r] \in {"send", "sending", "done"} => rank_place[r - 1] \in {"sending", "done"}
                    /\ Printed(r \div 2) <=> rank_place[r] \in {"sending", "done"} /\ channel[<<r, 0>>] = <<>>
     ELSE /\ output = <<>> /\ \A r, q \in Rank : channel[<<r, q>>] = <<>>
          /\ \A r \in Rank : rank_place[r] \in {"start", "done"}

\* mpi_ping_pong: the ball is with one process or in one channel.
BallInv ==
  IF process_count = 2
  THEN /\ PrintedInOrder
       /\ rank_place[0] = "start" <=> output = <<>>
       /\ output = <<>> => rank_place[1] # "send" /\ \A r, q \in Rank : channel[<<r, q>>] = <<>>
       /\ \A r \in Rank :
            /\ rank_place[r] \in {"start", "send", "sending", "receive"}
            /\ value[r] = 0 \/ value[r] < Len(output)
            /\ rank_place[r] = "send" =>
                 /\ value[r] = Len(output) - 1 /\ rank_place[1 - r] # "send"
                 /\ \A p, q \in Rank : channel[<<p, q>>] = <<>>
       /\ \A r, q \in Rank : channel[<<r, q>>] # <<>> =>
            /\ q = 1 - r /\ channel[<<r, q>>] = <<Len(output)>> /\ channel[<<q, r>>] = <<>>
            /\ Len(output) <= MaxBall
  ELSE /\ output = <<>> /\ \A r, q \in Rank : channel[<<r, q>>] = <<>>
       /\ \A r \in Rank : rank_place[r] \in {"start", "done"}

IInv ==
  /\ TypeOK
  /\ mpi_program = "none" => process_count = 0
  /\ mpi_program \in {"send_recv_urd", "send_recv_ord_itm"} => GreetingsInv
  /\ mpi_program = "send_recv_ord_sem" => PermissionInv
  /\ mpi_program = "mpi_relay_race" => RaceInv
  /\ mpi_program = "mpi_ping_pong" => BallInv

=============================================================================
