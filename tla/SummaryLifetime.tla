-------------------------- MODULE SummaryLifetime --------------------------
(***************************************************************************)
(* What the analysis drivers promise about the import DAG: a package is     *)
(* analysed once, after all its imports and with all their summaries in     *)
(* memory, and a summary is dropped only when no importer is left to read   *)
(* it and it is not the summary of a root, whose diagnostics are gathered   *)
(* at the end.  Both dispatchers of internal/gopls/cache/analysis.go are    *)
(* meant to implement it.                                                   *)
(***************************************************************************)
CONSTANTS Nodes, Succs, Roots

VARIABLES done, dropped

lifetimeVars == <<done, dropped>>

Importers(n) == {p \in Nodes : n \in Succs[p]}

Init == done = {} /\ dropped = {}

Complete(n) ==
    /\ n \in Nodes \ done
    /\ Succs[n] \subseteq done \ dropped
    /\ done' = done \cup {n}
    /\ UNCHANGED dropped

Drop(n) ==
    /\ n \in done \ dropped
    /\ n \notin Roots
    /\ Importers(n) \subseteq done
    /\ dropped' = dropped \cup {n}
    /\ UNCHANGED done

Next == \E n \in Nodes : Complete(n) \/ Drop(n)

Spec == Init /\ [][Next]_lifetimeVars

=============================================================================
