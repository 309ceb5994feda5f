----------------------------- MODULE MCJobFile -----------------------------
(* Job files of up to five plates in an array that starts with two places. *)
EXTENDS JobFile

AllVersions == {"serial", "pthread", "optimized", "omp_mpi"}
NoExtension == {"output_name"}
=============================================================================
