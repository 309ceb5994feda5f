------------------------------ MODULE BuildH2O ------------------------------
(***************************************************************************)
(* extra/build_h2o: threads that are atoms form water in a device that     *)
(* takes the three atoms of one molecule at a time.                        *)
(*                                                                         *)
(* Two counting semaphores let two hydrogen atoms and one oxygen atom in;  *)
(* the same std::barrier(3) stands before and after bond(), so an atom on  *)
(* its way in and one on its way out could be counted together.  A barrier *)
(* releases all the threads that wait in it in one step.                   *)
(***************************************************************************)
EXTENDS Integers, FiniteSets

CONSTANTS Hydrogens, Oxygens     (* the atoms in the input                *)

AtomsAssumption ==
  /\ IsFiniteSet(Hydrogens) /\ IsFiniteSet(Oxygens)
  /\ Hydrogens \cap Oxygens = {}

Atoms == Hydrogens \cup Oxygens

VARIABLES
  atom_pc,                                  (* where each atom is          *)
  hydrogen_multiplex, oxygen_multiplex,     (* the semaphores              *)
  hydrogen_count, oxygen_count,             (* the device: atoms bonded    *)
  molecule_count

multiplexes == <<hydrogen_multiplex, oxygen_multiplex>>
device      == <<hydrogen_count, oxygen_count, molecule_count>>
h2oVars     == <<atom_pc, multiplexes, device>>

Init ==
  /\ atom_pc = [a \in Atoms |-> "acquire"]
  /\ hydrogen_multiplex = 2 /\ oxygen_multiplex = 1
  /\ hydrogen_count = 0 /\ oxygen_count = 0 /\ molecule_count = 0

At(places) == {a \in Atoms : atom_pc[a] \in places}

GoTo(a, place) == atom_pc' = [atom_pc EXCEPT ![a] = place]

Acquire(a) ==
  /\ atom_pc[a] = "acquire"
  /\ IF a \in Hydrogens
       THEN /\ hydrogen_multiplex > 0
            /\ hydrogen_multiplex' = hydrogen_multiplex - 1
            /\ UNCHANGED oxygen_multiplex
       ELSE /\ oxygen_multiplex > 0
            /\ oxygen_multiplex' = oxygen_multiplex - 1
            /\ UNCHANGED hydrogen_multiplex
  /\ GoTo(a, "enter")
  /\ UNCHANGED device

Passed(place) == IF place \in {"enter", "entering"} THEN "bond" ELSE "release"

\* bond_barrier.arrive_and_wait(), at its two places.
Arrive(a) ==
  LET waiting == At({"entering", "leaving"})
  IN
  /\ atom_pc[a] \in {"enter", "leave"}
  /\ atom_pc' =
       IF Cardinality(waiting) = 2
         THEN [b \in Atoms |-> IF b \in waiting \cup {a} THEN Passed(atom_pc[b])
                                                         ELSE atom_pc[b]]
         ELSE [atom_pc EXCEPT ![a] = IF @ = "enter" THEN "entering" ELSE "leaving"]
  /\ UNCHANGED <<multiplexes, device>>

\* bond(), under its mutex.
Bond(a) ==
  LET hydrogen == hydrogen_count + (IF a \in Hydrogens THEN 1 ELSE 0)
      oxygen   == oxygen_count + (IF a \in Oxygens THEN 1 ELSE 0)
      complete == hydrogen = 2 /\ oxygen = 1
  IN
  /\ atom_pc[a] = "bond"
  /\ hydrogen_count' = IF complete THEN 0 ELSE hydrogen
  /\ oxygen_count' = IF complete THEN 0 ELSE oxygen
  /\ molecule_count' = molecule_count + (IF complete THEN 1 ELSE 0)
  /\ GoTo(a, "leave")
  /\ UNCHANGED multiplexes

\* Mistake: an atom may leave without waiting for the other two.
ReleaseEarly(a) ==
  /\ atom_pc[a] \in {"release", "leave"}
  /\ IF a \in Hydrogens
       THEN hydrogen_multiplex' = hydrogen_multiplex + 1 /\ UNCHANGED oxygen_multiplex
       ELSE oxygen_multiplex' = oxygen_multiplex + 1 /\ UNCHANGED hydrogen_multiplex
  /\ GoTo(a, "done")
  /\ UNCHANGED device

Release(a) ==
  /\ atom_pc[a] = "release"
  /\ IF a \in Hydrogens
       THEN hydrogen_multiplex' = hydrogen_multiplex + 1 /\ UNCHANGED oxygen_multiplex
       ELSE oxygen_multiplex' = oxygen_multiplex + 1 /\ UNCHANGED hydrogen_multiplex
  /\ GoTo(a, "done")
  /\ UNCHANGED device

AtomStep(a) == Acquire(a) \/ Arrive(a) \/ Bond(a) \/ Release(a)

\* Every atom has been joined.
Joined == \A a \in Atoms : atom_pc[a] = "done"

Next == (\E a \in Atoms : AtomStep(a)) \/ (Joined /\ UNCHANGED h2oVars)

Spec == Init /\ [][Next]_h2oVars

-----------------------------------------------------------------------------
(* Properties *)

\* "The three atoms of a molecule must call bond() before the threads of the
\* next one", and the device works on no other combination (readme.adoc of
\* build_h2o): two hydrogen atoms and one oxygen atom are in the device, or
\* none, and the device has counted those of them that have bonded.
OneMoleculeAtATime ==
  LET inside == At({"bond", "leave", "leaving"})
      bonded == At({"leave", "leaving"})
  IN /\ inside # {} => /\ Cardinality(inside \cap Hydrogens) = 2
                       /\ Cardinality(inside \cap Oxygens) = 1
     /\ bonded = inside => hydrogen_count = 0 /\ oxygen_count = 0
     /\ bonded # inside =>
          /\ hydrogen_count = Cardinality(bonded \cap Hydrogens)
          /\ oxygen_count = Cardinality(bonded \cap Oxygens)
     /\ 3 * molecule_count = Cardinality(At({"release", "done"}))
          + (IF bonded = inside THEN Cardinality(inside) ELSE 0)

-----------------------------------------------------------------------------
(* The inductive invariant *)

TypeOK ==
  /\ atom_pc \in [Atoms -> {"acquire", "enter", "entering", "bond", "leave",
                            "leaving", "release", "done"}]
  /\ hydrogen_multiplex \in 0 .. 2 /\ oxygen_multiplex \in 0 .. 1
  /\ hydrogen_count \in Nat /\ oxygen_count \in Nat /\ molecule_count \in Nat

\* The atoms between acquire and release, and those between the two barriers.
Admitted == At({"enter", "entering", "bond", "leave", "leaving", "release"})
Inside   == At({"bond", "leave", "leaving"})

\* The semaphores count the atoms that may still come, and nobody comes while
\* there is an atom between the barriers.
MultiplexInv ==
  /\ hydrogen_multiplex = 2 - Cardinality(Admitted \cap Hydrogens)
  /\ oxygen_multiplex = 1 - Cardinality(Admitted \cap Oxygens)
  /\ Inside # {} => Admitted = Inside

\* Three atoms at most are admitted, so the barrier never counts atoms on their
\* way in with others on their way out.
IInv == TypeOK /\ MultiplexInv /\ OneMoleculeAtATime
=============================================================================
