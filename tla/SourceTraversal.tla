-------------------------- MODULE SourceTraversal --------------------------
(***************************************************************************)
(* What the connector promises about one source, without jobs, leases,     *)
(* requests or tokens: the source is read in generations, a generation     *)
(* reads the pages in order under one configuration, and a new             *)
(* configuration lets no page in before a new generation starts.           *)
(* JiraRuntime implements it (JiraRuntime!Traversal).                      *)
(***************************************************************************)
EXTENDS Naturals, Sequences

CONSTANT PageCount

VARIABLES
  config,      \* the configuration revision
  fenced,      \* no page may be read before the next generation
  generation,
  read         \* the configuration each page of the generation was read under

traversalVars == <<config, fenced, generation, read>>

TraversalInit == config = 1 /\ fenced = TRUE /\ generation = 1 /\ read = <<>>

Restart ==
  /\ generation' = generation + 1
  /\ read' = <<>> /\ fenced' = FALSE
  /\ UNCHANGED config

ReadPage ==
  /\ ~fenced /\ Len(read) < PageCount
  /\ read' = Append(read, config)
  /\ UNCHANGED <<config, fenced, generation>>

NewConfiguration ==
  /\ config' = config + 1 /\ fenced' = TRUE
  /\ UNCHANGED <<generation, read>>

TraversalNext == Restart \/ ReadPage \/ NewConfiguration

TraversalSpec == TraversalInit /\ [][TraversalNext]_traversalVars
=============================================================================
