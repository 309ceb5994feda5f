---------------------------- MODULE GreetingTeams ----------------------------
(***************************************************************************)
(* The first programs of pthreads/:                                        *)
(*   hello            one thread greets,                                   *)
(*   recursive_hello  each thread greets, creates the next and joins it,   *)
(*   grandma_lottery  two threads return a number each,                    *)
(*   hello_w          a team whose argument is the rank,                   *)
(*   hello_iw_pri     ... a private register with rank and count,          *)
(*   hello_iw_shr     ... a private register that points to a shared one.  *)
(*                                                                         *)
(* The registers are freed after the joins.  The three teams join every    *)
(* thread even if its creation failed, which is undefined.                 *)
(***************************************************************************)
EXTENDS Integers, FiniteSets

CONSTANTS
  GreetingPrograms,
  TeamSizes,             (* arguments of the three teams                   *)
  LotteryNumbers,
  AllocationMayFail, CreationMayFail

GreetingAssumption ==
  /\ TeamSizes \subseteq Nat /\ LotteryNumbers \subseteq Nat
  /\ AllocationMayFail \in BOOLEAN /\ CreationMayFail \in BOOLEAN

Register == {"shared_data", "threads", "private_data"}

VARIABLES
  greet_program, team_size,
  greet_main,            (* where the main thread is                       *)
  made, collected,       (* threads created and joined by it               *)
  greeter,               (* where each thread is                           *)
  block,                 (* whether each register is allocated             *)
  private_data,          (* the ranks in the private registers             *)
  greeting,              (* what each thread prints or returns             *)
  main_says, exit_error

greetVars == <<greet_program, team_size, greet_main, made, collected, greeter,
               block, private_data, greeting, main_says, exit_error>>

Greeters == 0 .. team_size - 1
IsTeam   == greet_program \in {"hello_w", "hello_iw_pri", "hello_iw_shr"}

\* The registers that each program allocates.
Registers ==
  CASE greet_program = "hello_w" -> {"threads"}
    [] greet_program = "hello_iw_pri" -> {"threads", "private_data"}
    [] greet_program = "hello_iw_shr" -> Register
    [] OTHER -> {}

Init ==
  /\ greet_program = "none" /\ team_size = 0
  /\ greet_main = "launch" /\ made = 0 /\ collected = 0
  /\ greeter = <<>> /\ private_data = <<>> /\ greeting = <<>>
  /\ block = [r \in Register |-> "null"]
  /\ main_says = <<>> /\ exit_error = 0

\* The programs without arguments have one, three and two threads.
Launch ==
  /\ greet_main = "launch" /\ greet_program' \in GreetingPrograms
  /\ team_size' \in CASE greet_program' = "hello" -> {1}
                      [] greet_program' = "recursive_hello" -> {3}
                      [] greet_program' = "grandma_lottery" -> {2}
                      [] OTHER -> TeamSizes
  /\ greet_main' = IF IsTeam' THEN "allocate" ELSE "create"
  /\ greeter' = [t \in Greeters' |-> "unborn"]
  /\ private_data' = [t \in Greeters' |-> 0]
  /\ greeting' = [t \in Greeters' |-> <<>>]
  /\ UNCHANGED <<made, collected, block, main_says, exit_error>>

-----------------------------------------------------------------------------
(* main and create_threads *)

\* When one of the registers cannot be allocated the others are not freed, but for
\* the shared one, which main frees after create_threads.
Allocate ==
  LET allocated == {r \in Register : block'[r] = "live"}
  IN
  /\ greet_main = "allocate"
  /\ \E failed \in SUBSET Registers :
       /\ failed # {} => AllocationMayFail
       /\ block' = [r \in Register |->
            IF r \in Registers \ failed /\ ("shared_data" \in failed => r = "shared_data")
              THEN "live" ELSE "null"]
       /\ exit_error' = CASE failed = {} -> 0
                          [] "shared_data" \in failed -> 12
                          [] OTHER -> 22
  /\ greet_main' = IF allocated = Registers THEN "create"
                   ELSE IF "shared_data" \in allocated THEN "free shared" ELSE "returned"
  /\ UNCHANGED <<greet_program, team_size, made, collected, greeter, private_data, greeting, main_says>>

\* How many threads the main thread creates: recursive_hello only its first.
ToCreate == IF greet_program = "recursive_hello" THEN 1 ELSE team_size

\* The n-th thread that the main thread creates.
Made(n) == IF greet_program = "recursive_hello" THEN team_size - 1 ELSE n

CreateThread ==
  /\ greet_main = "create" /\ made < ToCreate
  /\ private_data' = [private_data EXCEPT ![Made(made)] = Made(made)]
  /\ greeter' = [greeter EXCEPT ![Made(made)] = "greet"]
  /\ made' = made + 1
  /\ UNCHANGED <<greet_program, team_size, greet_main, collected, block, greeting, main_says, exit_error>>

\* A team goes on to the joins with error 21; the others return at once.  The second
\* creation of grandma_lottery is tried in any case.
CreateFails ==
  /\ CreationMayFail /\ greet_main = "create" /\ made < ToCreate
  /\ greet_main' = IF IsTeam THEN "greet" ELSE "returned"
  /\ exit_error' = IF IsTeam THEN 21 ELSE 1
  /\ \/ UNCHANGED greeter
     \/ /\ greet_program = "grandma_lottery" /\ made = 0
        /\ greeter' = [greeter EXCEPT ![1] = "greet"]
  /\ UNCHANGED <<greet_program, team_size, made, collected, block, private_data, greeting, main_says>>

MainGreets ==
  /\ greet_main = "greet" \/ (greet_main = "create" /\ made = ToCreate)
  /\ greet_main' = "join"
  /\ main_says' = IF greet_program = "grandma_lottery" THEN <<>> ELSE <<"hello">>
  /\ UNCHANGED <<greet_program, team_size, made, collected, greeter, block, private_data, greeting, exit_error>>

JoinThread ==
  /\ greet_main = "join" /\ collected < ToCreate
  /\ IF collected < made
       THEN /\ greeter[Made(collected)] = "done"
            /\ collected' = collected + 1 /\ UNCHANGED greet_main
       ELSE greet_main' = "undefined" /\ UNCHANGED collected
  /\ UNCHANGED <<greet_program, team_size, made, greeter, block, private_data, greeting, main_says, exit_error>>

\* Mistake: the registers are freed while the team may use them.
FreeBeforeJoins ==
  /\ greet_main = "join"
  /\ greet_main' = IF greet_program = "hello_iw_shr" THEN "free shared" ELSE "returned"
  /\ block' = [r \in Register |-> IF r # "shared_data" /\ block[r] = "live" THEN "freed" ELSE block[r]]
  /\ main_says' = IF greet_program = "grandma_lottery" THEN <<greeting[0], greeting[1]>> ELSE main_says
  /\ UNCHANGED <<greet_program, team_size, made, collected, greeter, private_data, greeting, exit_error>>

\* The registers of the team are freed; grandma has the numbers returned.
AfterJoins ==
  /\ greet_main = "join" /\ collected = ToCreate
  /\ greet_main' = IF greet_program = "hello_iw_shr" THEN "free shared" ELSE "returned"
  /\ block' = [r \in Register |-> IF r # "shared_data" /\ block[r] = "live" THEN "freed" ELSE block[r]]
  /\ main_says' = IF greet_program = "grandma_lottery" THEN <<greeting[0], greeting[1]>> ELSE main_says
  /\ UNCHANGED <<greet_program, team_size, made, collected, greeter, private_data, greeting, exit_error>>

FreeShared ==
  /\ greet_main = "free shared"
  /\ greet_main' = "returned"
  /\ block' = [block EXCEPT !["shared_data"] = "freed"]
  /\ UNCHANGED <<greet_program, team_size, made, collected, greeter, private_data, greeting, main_says, exit_error>>

-----------------------------------------------------------------------------
(* greet and buy_lottery *)

Becomes(t, place) == greeter' = [greeter EXCEPT ![t] = place]

\* What a register holds, or -1 if it is not there.
Read(register, value) == IF block[register] = "live" THEN value ELSE -1

Greet(t) ==
  /\ greeter[t] = "greet"
  /\ \E number \in LotteryNumbers :
       greeting' = [greeting EXCEPT ![t] =
         CASE greet_program = "grandma_lottery" -> <<number>>
           [] greet_program = "hello_iw_pri" ->
                <<Read("private_data", private_data[t]), Read("private_data", team_size)>>
           [] greet_program = "hello_iw_shr" ->
                <<Read("private_data", private_data[t]), Read("shared_data", team_size)>>
           [] OTHER -> <<t>>]
  /\ Becomes(t, IF greet_program = "recursive_hello" /\ t > 0 THEN "create" ELSE "done")
  /\ UNCHANGED <<greet_program, team_size, greet_main, made, collected, block, private_data, main_says, exit_error>>

\* recursive_hello: a thread that cannot create the next one returns.
CreateNext(t) ==
  /\ greeter[t] = "create"
  /\ \/ greeter' = [greeter EXCEPT ![t] = "join", ![t - 1] = "greet"]
     \/ CreationMayFail /\ Becomes(t, "done")
  /\ UNCHANGED <<greet_program, team_size, greet_main, made, collected, block, private_data, greeting, main_says, exit_error>>

JoinNext(t) ==
  /\ greeter[t] = "join" /\ greeter[t - 1] = "done"
  /\ Becomes(t, "done")
  /\ UNCHANGED <<greet_program, team_size, greet_main, made, collected, block, private_data, greeting, main_says, exit_error>>

GreetingStep ==
  \/ Launch \/ Allocate \/ CreateThread \/ CreateFails \/ MainGreets
  \/ JoinThread \/ AfterJoins \/ FreeShared
  \/ \E t \in Greeters : Greet(t) \/ CreateNext(t) \/ JoinNext(t)

\* The process ends with its main thread.
GreetingEnded == greet_main \in {"returned", "undefined"}

Next == (~GreetingEnded /\ GreetingStep) \/ (GreetingEnded /\ UNCHANGED greetVars)

Spec == Init /\ [][Next]_greetVars

-----------------------------------------------------------------------------
(* Properties *)

\* Each thread greets with its own number, and the count of its team, from registers
\* that are still there; a program that returns without error has had the greetings
\* of all its threads (of those created, in recursive_hello, which ignores the errors
\* of its threads), and grandma the numbers they drew; only a failed allocation
\* leaves a register behind.
GreetsAsItself ==
  /\ \A t \in Greeters : greeting[t] # <<>> =>
       CASE greet_program = "grandma_lottery" -> greeting[t][1] \in LotteryNumbers
         [] greet_program \in {"hello_iw_pri", "hello_iw_shr"} -> greeting[t] = <<t, team_size>>
         [] OTHER -> greeting[t] = <<t>>
  /\ greet_main = "returned" /\ exit_error = 0 =>
       /\ \A t \in Greeters : greeting[t] # <<>>
            \/ (greet_program = "recursive_hello" /\ CreationMayFail /\ t < team_size - 1)
       /\ \A t \in Greeters : greeter[t] \in {"unborn", "done"}
       /\ greet_program = "grandma_lottery" => main_says = <<greeting[0], greeting[1]>>
  /\ greet_main = "returned" /\ exit_error \notin {12, 22} =>
       \A r \in Registers : block[r] = "freed"

-----------------------------------------------------------------------------
(* The inductive invariant *)

TypeOK ==
  /\ greet_main \in {"launch", "allocate", "create", "greet", "join", "free shared",
                     "returned", "undefined"}
  /\ team_size \in Nat
  /\ made \in 0 .. ToCreate /\ collected \in 0 .. made
  /\ greeter \in [Greeters -> {"unborn", "greet", "create", "join", "done"}]
  /\ block \in [Register -> {"null", "live", "freed"}]
  /\ private_data \in [Greeters -> Nat]
  /\ DOMAIN greeting = Greeters

\* How many threads there are, and that there is none before the registers are.
LaunchInv ==
  /\ greet_program = "hello" => team_size = 1
  /\ greet_program = "recursive_hello" => team_size = 3
  /\ greet_program = "grandma_lottery" => team_size = 2
  /\ greet_main = "launch" => greet_program = "none" /\ team_size = 0
  /\ greet_main = "allocate" => IsTeam
  /\ greet_main \in {"launch", "allocate"} =>
       /\ made = 0 /\ exit_error = 0
       /\ \A t \in Greeters : greeter[t] = "unborn"

\* The registers are there while there is somebody to read them.
BlockInv ==
  /\ greet_main \in {"create", "greet", "join"} =>
       \A r \in Registers : block[r] = "live"
  /\ greet_main = "free shared" =>
       /\ greet_program = "hello_iw_shr" /\ exit_error \in {0, 22}
       /\ exit_error = 0 => \A r \in Registers : block[r] = IF r = "shared_data" THEN "live" ELSE "freed"

\* The main thread has created the first threads and joined the first of these; only
\* grandma, who returns at once, may have the second one alone.
CreatedInv ==
  /\ greet_main \notin {"returned", "undefined"} =>
       /\ greet_program # "recursive_hello" =>
            \A t \in Greeters : /\ greeter[t] = "unborn" <=> t >= made
                                /\ t < collected => greeter[t] = "done"
       /\ greet_program = "recursive_hello" =>
            /\ greeter[2] = "unborn" <=> made = 0
            /\ collected = 1 => greeter[2] = "done"
  /\ greet_main = "greet" => exit_error = 21 /\ made < ToCreate
  /\ greet_main = "create" => exit_error = 0 /\ collected = 0
  /\ greet_main = "join" => (exit_error = 0 <=> made = ToCreate) /\ exit_error \in {0, 21}
  /\ exit_error \in {12, 22} => made = 0
  /\ greet_main = "free shared" /\ exit_error = 0 => made = ToCreate

\* In recursive_hello a thread waits for the next one, which it may not have created.
NextInv ==
  /\ greet_program = "recursive_hello" =>
       \A t \in 1 .. 2 :
         /\ greeter[t] \in {"unborn", "greet", "create"} => greeter[t - 1] = "unborn"
         /\ greeter[t] = "join" => greeter[t - 1] # "unborn"
         /\ greeter[t] = "done" => greeter[t - 1] = "done" \/ (CreationMayFail /\ greeter[t - 1] = "unborn")
  /\ \A t \in Greeters : greeter[t] \in {"create", "join"} =>
       greet_program = "recursive_hello" /\ t > 0

\* A thread that was created has its rank, and greets once.
GreetingInv ==
  \A t \in Greeters :
    /\ greeter[t] \notin {"unborn", "greet"} <=> greeting[t] # <<>>
    /\ IsTeam /\ greeter[t] # "unborn" => private_data[t] = t

AllDone ==
  greet_main \in {"returned", "free shared"} /\ exit_error = 0 =>
    \A t \in Greeters : greeter[t] \in {"unborn", "done"}

IInv ==
  /\ TypeOK /\ LaunchInv /\ BlockInv /\ CreatedInv /\ NextInv /\ GreetingInv /\ AllDone
  /\ GreetsAsItself
=============================================================================
