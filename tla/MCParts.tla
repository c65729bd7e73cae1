------------------------------ MODULE MCParts -------------------------------
(***************************************************************************)
(* The instances of the parts that share no state: a behaviour is one of   *)
(* the object of an activation, the catalog, the watchdog, the log of the  *)
(* client and the file of diagnostics, and leaves the others as they begin.*)
(***************************************************************************)
EXTENDS Activation, Watchdog, Catalog, LogFeed, Journal

VARIABLE part

\* Both modes of the watchdog conclude from the second unanswered check.
TwoStrikes == [conservative |-> 2, aggressive |-> 2]

\* The providers may send an entry again with other overridable fields, under another
\* name, or twice; both providers and the user may have the same server.
Offer(name, host, field) == [name |-> name, host |-> host, field |-> field]
Providers == {"u1", "u2"}
Offers ==
    [u1 |-> {<<Offer("n", "h", 1)>>, <<Offer("n", "h", 2), Offer("m", "k", 1)>>},
     u2 |-> {<<Offer("n", "h", 1)>>}]
TypedIn == {Offer("n", "h", 1), Offer("n", "h", 2)}
Chosen == {<<"m", 1>>}

PartsInit ==
    /\ part \in {"activation", "catalog", "watchdog", "log", "journal"}
    /\ ActivationInit /\ CatalogInit /\ Init /\ FeedInit /\ JournalInit
    /\ part # "log" => book.id = 1

PartsNext ==
    /\ UNCHANGED part
    /\ \/ /\ part = "activation" /\ ActivationNext
          /\ UNCHANGED <<catalogVars, vars, feedVars, journalVars>>
       \/ /\ part = "catalog" /\ CatalogNext
          /\ UNCHANGED <<activation, vars, feedVars, journalVars>>
       \/ /\ part = "watchdog" /\ Next
          /\ UNCHANGED <<activation, catalogVars, feedVars, journalVars>>
       \/ /\ part = "log" /\ FeedNext
          /\ UNCHANGED <<activation, catalogVars, vars, journalVars>>
       \/ /\ part = "journal" /\ JournalNext
          /\ UNCHANGED <<activation, catalogVars, vars, feedVars>>

PartsSpec ==
    PartsInit
    /\ [][PartsNext]_<<part, activation, catalogVars, vars, feedVars, journalVars>>
=============================================================================
