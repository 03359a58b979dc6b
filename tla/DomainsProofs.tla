--------------------------- MODULE DomainsProofs ---------------------------
(***************************************************************************)
(* Domains for any domains, times and number of restarts: no seed is lost  *)
(* on disk.  The file is removed by the step after the one that read it,   *)
(* so the invariant says that in between the file is still there, the same *)
(* one, and that its seeds are in the backup.                              *)
(***************************************************************************)
EXTENDS Domains, TLAPS

\* Between load_seed's reading and its unlink: nobody else removes the file,
\* and the operator does not write one over it.
ReadFileKept ==
    /\ pc \in {"load_seed", "unlink"} => seed_file # NoFile
    /\ pc = "unlink" => seed_file.lines \subseteq seed_bak

Inductive == TypeOK /\ ReadFileKept /\ SeedsSurvive

LEMMA InitInductive == Init => Inductive
<1> SUFFICES ASSUME Init PROVE Inductive
  OBVIOUS
<1>1. TypeOK
  BY DomainsAssumption DEF Init, TypeOK, NoDomains
<1> QED  BY <1>1 DEF Init, Inductive, ReadFileKept, SeedsSurvive

LEMMA TypeStep == TypeOK /\ ReadFileKept /\ [Next]_vars => TypeOK'
<1> SUFFICES ASSUME TypeOK, ReadFileKept, [Next]_vars PROVE TypeOK'
  OBVIOUS
<1> USE DomainsAssumption DEF TypeOK, fileVars, timeVars, DomainAttr
<1>1. CASE Tick
  BY <1>1 DEF Tick
<1>2. CASE EditStopList
  BY <1>2 DEF EditStopList
<1>3. CASE WriteSeeds
  BY <1>3 DEF WriteSeeds
<1>4. CASE load_input_urls
  BY <1>4 DEF load_input_urls
<1>5. CASE CheckStopList
  BY <1>5 DEF CheckStopList
<1>6. CASE load_stop_domain
  BY <1>6 DEF load_stop_domain, Shield
<1>7. CASE CheckSeeds
  BY <1>7 DEF CheckSeeds
<1>8. CASE load_seed
  BY <1>8 DEF load_seed, ReadFileKept
<1>9. CASE UnlinkSeeds
  BY <1>9 DEF UnlinkSeeds
<1>10. CASE Select
  BY <1>10 DEF Select
<1>11. CASE Restart
  BY <1>11 DEF Restart, NoDomains
<1>12. CASE UNCHANGED vars
  BY <1>12 DEF vars
<1> QED  BY <1>1, <1>2, <1>3, <1>4, <1>5, <1>6, <1>7, <1>8, <1>9, <1>10, <1>11, <1>12
         DEF Next, SelectThread

LEMMA SeedsStep == Inductive /\ [Next]_vars => ReadFileKept' /\ SeedsSurvive'
<1> SUFFICES ASSUME Inductive, [Next]_vars PROVE ReadFileKept' /\ SeedsSurvive'
  OBVIOUS
<1> USE DEF ReadFileKept, SeedsSurvive, fileVars
<1>0. TypeOK /\ ReadFileKept /\ SeedsSurvive
  BY DEF Inductive
\* A file the operator wrote is one.
<1>1. CASE WriteSeeds
  <2>1. PICK L \in SUBSET DomainNames : /\ seed_file' = [ctime |-> now, lines |-> L]
                                       /\ offered' = offered \cup L
    BY <1>1 DEF WriteSeeds
  <2>2. seed_file' # NoFile /\ seed_file'.lines = L
    <3>1. seed_file' \in File
      BY <1>0, <2>1 DEF TypeOK, File
    <3> QED  BY <2>1, <3>1, NoFileAssumption
  <2>3. pc' # "unlink" /\ offered \subseteq seed_bak
    BY <1>0, <1>1 DEF WriteSeeds
  <2> QED  BY <1>1, <2>1, <2>2, <2>3 DEF WriteSeeds
<1>2. CASE Tick \/ EditStopList
  BY <1>0, <1>2 DEF Tick, EditStopList
<1>3. CASE load_input_urls \/ CheckStopList \/ load_stop_domain \/ Select
  BY <1>0, <1>3 DEF load_input_urls, CheckStopList, load_stop_domain, Select
<1>4. CASE CheckSeeds
  BY <1>0, <1>4 DEF CheckSeeds
<1>5. CASE load_seed
  BY <1>0, <1>5 DEF load_seed
<1>6. CASE UnlinkSeeds
  BY <1>0, <1>6 DEF UnlinkSeeds
<1>7. CASE Restart
  BY <1>0, <1>7 DEF Restart
<1>8. CASE UNCHANGED vars
  BY <1>0, <1>8 DEF vars
<1> QED  BY <1>1, <1>2, <1>3, <1>4, <1>5, <1>6, <1>7, <1>8 DEF Next, SelectThread

LEMMA AlwaysInductive == Spec => []Inductive
<1>1. Inductive /\ [Next]_vars => Inductive'
  BY TypeStep, SeedsStep DEF Inductive
<1> QED  BY InitInductive, <1>1, PTL DEF Spec

(* No seed is lost on disk, whenever and however often the process dies:    *)
(* until load_seed removes the file, each of its seeds is in the backup.    *)
THEOREM DomainsSeedsSurvive == Spec => []SeedsSurvive
<1>1. Inductive => SeedsSurvive
  BY DEF Inductive
<1> QED  BY <1>1, AlwaysInductive, PTL

-----------------------------------------------------------------------------
(* The stop list *)

\* Every domain of the stop list read last is known, and shielded.
Shielding == \A d \in stop_list : d \in DOMAIN m_domain /\ m_domain[d].isShield

(* The shields the stop list asks for, which a samsara loses (StopListKept  *)
(* is violated), are lost in no other way: whatever update_conf reads, the  *)
(* operator writes and however often the process is started again, only     *)
(* load_input_urls takes a shield away from a domain of the list.  (A       *)
(* domain it has forgotten may then come back as a seed's, unshielded.)     *)
THEOREM DomainsOnlyInputUnshields ==
    Spec => [][Shielding => Shielding' \/ load_input_urls]_vars
<1>1. ASSUME Inductive, [Next]_vars, Shielding, ~load_input_urls
      PROVE  Shielding'
  <2> USE <1>1 DEF Shielding, fileVars
  <2>0. TypeOK /\ ReadFileKept
    BY DEF Inductive
  <2>1. CASE load_stop_domain
    BY <2>1 DEF load_stop_domain, Shield
  <2>2. CASE load_seed
    <3>1. UNCHANGED stop_list
      BY <2>2 DEF load_seed
    <3>2. DOMAIN m_domain' = DOMAIN m_domain \cup seed_file.lines
      BY <2>2 DEF load_seed
    <3>3. \A d \in DOMAIN m_domain' : m_domain'[d].isShield = (d \in ShieldedDomains)
      BY <2>2, <3>2 DEF load_seed
    <3> QED  BY <3>1, <3>2, <3>3 DEF ShieldedDomains
  <2>3. CASE Restart
    BY <2>3 DEF Restart
  <2>4. CASE UNCHANGED <<m_domain, stop_list>>
    BY <2>4
  <2> QED  BY <1>1, <2>1, <2>2, <2>3, <2>4
           DEF Next, SelectThread, Tick, EditStopList, WriteSeeds, CheckStopList,
               CheckSeeds, UnlinkSeeds, Select, vars
<1>2. Inductive /\ [Next]_vars => [Shielding => Shielding' \/ load_input_urls]_vars
  BY <1>1
<1> QED  BY <1>2, AlwaysInductive, PTL DEF Spec
=============================================================================
