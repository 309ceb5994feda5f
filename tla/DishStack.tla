------------------------------ MODULE DishStack ------------------------------
(***************************************************************************)
(* extra/dish_stack: main pushes the dishes, hires the washers and waits   *)
(* for them.  A washer pops dishes until pop answers that the stack is     *)
(* empty; the test and the removal are under the mutex of the stack.       *)
(***************************************************************************)
EXTENDS Integers, Sequences, FiniteSets

CONSTANTS WasherCounts, DishCounts     (* the two numbers of the input     *)

DishAssumption == WasherCounts \subseteq Nat /\ DishCounts \subseteq Nat

VARIABLES
  dish_main,             (* where the main thread is                       *)
  washer_count, dish_count,
  dishwashers,           (* washers hired                                  *)
  dish_joined,
  dish_stack,            (* the top is the last one                        *)
  washer,                (* where each washer is                           *)
  dish,                  (* the dish each washer has                       *)
  times_washed,          (* of each dish                                   *)
  unwashed               (* the number main prints                         *)

dishVars == <<dish_main, washer_count, dish_count, dishwashers, dish_joined,
              dish_stack, washer, dish, times_washed, unwashed>>

STACK_EMPTY_FLAG == -1

Init ==
  /\ dish_main = "read" /\ washer_count = 0 /\ dish_count = 0
  /\ dishwashers = 0 /\ dish_joined = 0
  /\ dish_stack = <<>> /\ washer = <<>> /\ dish = <<>> /\ times_washed = <<>>
  /\ unwashed = STACK_EMPTY_FLAG

\* main fills the stack before there is any other thread.
ReadAndFill ==
  /\ dish_main = "read"
  /\ washer_count' \in WasherCounts /\ dish_count' \in DishCounts
  /\ dish_stack' = [n \in 1 .. dish_count' |-> n - 1]
  /\ times_washed' = [d \in 0 .. dish_count' - 1 |-> 0]
  /\ washer' = [w \in 1 .. washer_count' |-> "unborn"]
  /\ dish' = [w \in 1 .. washer_count' |-> STACK_EMPTY_FLAG]
  /\ dish_main' = "hire"
  /\ UNCHANGED <<dishwashers, dish_joined, unwashed>>

Hire ==
  /\ dish_main = "hire" /\ dishwashers < washer_count
  /\ dishwashers' = dishwashers + 1
  /\ washer' = [washer EXCEPT ![dishwashers'] = "lock"]
  /\ UNCHANGED <<dish_main, washer_count, dish_count, dish_joined, dish_stack, dish, times_washed, unwashed>>

Join ==
  /\ dish_main = "hire" /\ dishwashers = washer_count
  /\ dish_joined < washer_count /\ washer[dish_joined + 1] = "done"
  /\ dish_joined' = dish_joined + 1
  /\ UNCHANGED <<dish_main, washer_count, dish_count, dishwashers, dish_stack, washer, dish, times_washed, unwashed>>

PrintUnwashed ==
  /\ dish_main = "hire" /\ dishwashers = washer_count /\ dish_joined = washer_count
  /\ unwashed' = Len(dish_stack) /\ dish_main' = "returned"
  /\ UNCHANGED <<washer_count, dish_count, dishwashers, dish_joined, dish_stack, washer, dish, times_washed>>

-----------------------------------------------------------------------------
(* pop and wash_dishes *)

StackIsLocked == \E w \in DOMAIN washer : washer[w] \in {"test", "pop"}

Lock(w) ==
  /\ washer[w] = "lock" /\ ~StackIsLocked
  /\ washer' = [washer EXCEPT ![w] = "test"]
  /\ UNCHANGED <<dish_main, washer_count, dish_count, dishwashers, dish_joined, dish_stack, dish, times_washed, unwashed>>

\* The flag of an empty stack ends the washer.
Top(w) ==
  /\ washer[w] = "test"
  /\ \/ /\ dish_stack = <<>>
        /\ washer' = [washer EXCEPT ![w] = "done"] /\ UNCHANGED dish
     \/ /\ dish_stack # <<>>
        /\ washer' = [washer EXCEPT ![w] = "pop"]
        /\ dish' = [dish EXCEPT ![w] = dish_stack[Len(dish_stack)]]
  /\ UNCHANGED <<dish_main, washer_count, dish_count, dishwashers, dish_joined, dish_stack, times_washed, unwashed>>

Pop(w) ==
  /\ washer[w] = "pop"
  /\ dish_stack' = SubSeq(dish_stack, 1, Len(dish_stack) - 1)
  /\ washer' = [washer EXCEPT ![w] = "wash"]
  /\ UNCHANGED <<dish_main, washer_count, dish_count, dishwashers, dish_joined, dish, times_washed, unwashed>>

Wash(w) ==
  /\ washer[w] = "wash"
  /\ times_washed' = [times_washed EXCEPT ![dish[w]] = @ + 1]
  /\ dish' = [dish EXCEPT ![w] = STACK_EMPTY_FLAG]
  /\ washer' = [washer EXCEPT ![w] = "lock"]
  /\ UNCHANGED <<dish_main, washer_count, dish_count, dishwashers, dish_joined, dish_stack, unwashed>>

DishStep ==
  \/ ReadAndFill \/ Hire \/ Join \/ PrintUnwashed
  \/ \E w \in DOMAIN washer : Lock(w) \/ Top(w) \/ Pop(w) \/ Wash(w)

KitchenClosed == dish_main = "returned"

Next == DishStep \/ (KitchenClosed /\ UNCHANGED dishVars)

Spec == Init /\ [][Next]_dishVars

-----------------------------------------------------------------------------
(* Properties *)

\* No dish is washed twice, and when main prints, with any washer at all, each has
\* been washed once and none is left.
DishesWashedOnce ==
  /\ \A d \in DOMAIN times_washed : times_washed[d] <= 1
  /\ dish_main = "returned" =>
       LET washed == IF washer_count = 0 THEN 0 ELSE 1
       IN /\ \A d \in DOMAIN times_washed : times_washed[d] = washed
          /\ unwashed = IF washer_count = 0 THEN dish_count ELSE 0

-----------------------------------------------------------------------------
(* The inductive invariant *)

Dishes == 0 .. dish_count - 1

TypeOK ==
  /\ dish_main \in {"read", "hire", "returned"}
  /\ washer_count \in Nat /\ dish_count \in Nat
  /\ dishwashers \in 0 .. washer_count /\ dish_joined \in 0 .. dishwashers
  /\ washer \in [1 .. washer_count -> {"unborn", "lock", "test", "pop", "wash", "done"}]
  /\ dish \in [1 .. washer_count -> Int]
  /\ times_washed \in [Dishes -> Nat]
  /\ unwashed \in Int

\* The washers hired exist, and those joined have found the stack empty.
HiredInv ==
  /\ dish_main = "read" => washer_count = 0 /\ dish_count = 0
  /\ \A w \in 1 .. washer_count :
       /\ washer[w] = "unborn" <=> w > dishwashers
       /\ w <= dish_joined => washer[w] = "done"
       /\ washer[w] = "done" => dish_stack = <<>>
  /\ dish_main = "returned" => dish_joined = washer_count /\ unwashed = Len(dish_stack)

\* The stack has the first dishes; each of the others is with one washer or was washed.
StackInv ==
  /\ Len(dish_stack) \in 0 .. dish_count
  /\ dish_stack = [n \in 1 .. Len(dish_stack) |-> n - 1]
  /\ washer_count = 0 => Len(dish_stack) = dish_count
  /\ \A w, v \in 1 .. washer_count :
       washer[w] \in {"test", "pop"} /\ washer[v] \in {"test", "pop"} => w = v
  /\ \A w \in 1 .. washer_count :
       washer[w] = "pop" => dish_stack # <<>> /\ dish[w] = Len(dish_stack) - 1
  /\ \A w \in 1 .. washer_count :
       washer[w] = "wash" => /\ dish[w] \in Len(dish_stack) .. dish_count - 1
                             /\ times_washed[dish[w]] = 0
  /\ \A w, v \in 1 .. washer_count :
       washer[w] = "wash" /\ washer[v] = "wash" /\ dish[w] = dish[v] => w = v
  /\ \A d \in Dishes :
       IF d < Len(dish_stack) THEN times_washed[d] = 0
       ELSE \/ times_washed[d] = 1
            \/ times_washed[d] = 0 /\ \E w \in 1 .. washer_count : washer[w] = "wash" /\ dish[w] = d

IInv == TypeOK /\ HiredInv /\ StackInv
=============================================================================
