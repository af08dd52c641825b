----------------------------- MODULE MCDiscovery -----------------------------
(***************************************************************************)
(* One instance for the parts of a scan that ask the DNS, the certificate  *)
(* logs and the hosts themselves.                                          *)
(* They share no state that these modules model, so a behaviour is one of  *)
(* one part, and the others rest in a fixed state.                         *)
(***************************************************************************)
EXTENDS CtIndex, DnsCadence, DnsTransport, DnsEngine, Enrichment

CONSTANTS h1, h2  \* hosts

VARIABLE part

parts == <<ctVars, cadVars, netVars, engVars, enrVars>>
allVars == <<part, parts>>

-----------------------------------------------------------------------------
(* Values of the constants.                                                *)

\* Each entry of a log has a name of its own.
NameByEntry == [l \in Logs |-> [i \in 0..(MaxTree - 1) |-> i]]

TwoHosts == {h1, h2}
AllPhases == {"graph", "ptr", "internetdb", "passive", "nsec", "metadata", "web", "tls"}
PhaseSets == {{"graph", "web", "pipeline"}, AllPhases}

-----------------------------------------------------------------------------
(* Where the parts that do not run stand.                                  *)

CtRests == one = TRUE /\ CtInit
CadRests == spacing = 0 /\ CadInit
EngRests ==
    /\ resolvers = {1} /\ liars = {} /\ truth = "absent" /\ policy = "consensus"
    /\ EngInit
EnrRests ==
    /\ options = AllPhases /\ eventLimit = 0 /\ cap = 2 /\ activeLeft = "none" /\ known = {}
    /\ EnrInit

-----------------------------------------------------------------------------
(* Bounds that no constant expresses.                                      *)

\* The limit of events is tried with the pipeline, on a scan that has no answer yet; a scan
\* is resumed with the answers it had.
EnrStarts ==
    /\ EnrInit
    /\ known = {}
    /\ <<options, eventLimit, cap>> \in
          {<<{"graph", "web", "pipeline"}, 0, 1>>, <<{"graph", "web", "pipeline"}, 1, 2>>,
           <<AllPhases, 0, 1>>}

EnrSteps ==
    /\ EnrNext
    /\ phase \in {"partial", "aborted"} => known' = known

-----------------------------------------------------------------------------
Parts == {"ct", "cadence", "transport", "engine", "enrichment"}

MCInit ==
    /\ part \in Parts
    /\ IF part = "ct" THEN CtInit ELSE CtRests
    /\ IF part = "cadence" THEN CadInit ELSE CadRests
    /\ NetInit
    /\ IF part = "engine" THEN EngInit ELSE EngRests
    /\ IF part = "enrichment" THEN EnrStarts ELSE EnrRests

MCNext ==
    /\ UNCHANGED part
    /\ \/ part = "ct" /\ CtNext
          /\ UNCHANGED <<cadVars, netVars, engVars, enrVars>>
       \/ part = "cadence" /\ CadNext
          /\ UNCHANGED <<ctVars, netVars, engVars, enrVars>>
       \/ part = "transport" /\ NetNext
          /\ UNCHANGED <<ctVars, cadVars, engVars, enrVars>>
       \/ part = "engine" /\ EngNext
          /\ UNCHANGED <<ctVars, cadVars, netVars, enrVars>>
       \/ part = "enrichment" /\ EnrSteps
          /\ UNCHANGED <<ctVars, cadVars, netVars, engVars>>

MCSpec == MCInit /\ [][MCNext]_allVars

-----------------------------------------------------------------------------
(* Properties.                                                             *)

\* Every variable of the part that runs keeps its type; the others do not move.
TypeOK ==
    CASE part = "ct" -> CtTypeOK
      [] part = "cadence" -> CadTypeOK
      [] part = "transport" -> NetTypeOK
      [] part = "engine" -> EngTypeOK
      [] part = "enrichment" -> EnrTypeOK
=============================================================================
