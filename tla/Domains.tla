------------------------------ MODULE Domains ------------------------------
(***************************************************************************)
(* m_statis.m_domain, the domains the spider knows, and the two files an   *)
(* operator changes while it runs: the stop list, whose domains are not to *)
(* be selected, and the seed file, which is consumed (spider.cpp,          *)
(* update_conf and what it calls, load_input_urls).                        *)
(*                                                                         *)
(* update_conf compares a file's change time, in seconds, with the one it  *)
(* remembers; the file is read later than its time.  A seed is a URL of a  *)
(* domain, one for each domain here.  A written file is complete at once,  *)
(* and the operator does not write two within one second.                  *)
(***************************************************************************)
EXTENDS Integers, FiniteSets

CONSTANTS
    DomainNames,
    NoFile,
    MaxTime,        \* bound: the last second
    MaxDeaths       \* bound: how often the process ends and is started again

ASSUME DomainsAssumption == MaxTime \in Nat /\ MaxDeaths \in Nat

File == [ctime : 0 .. MaxTime, lines : SUBSET DomainNames]

ASSUME NoFileAssumption == NoFile \notin File

VARIABLES
    now,
    stop_file,      \* stop_domain_conf_path: its change time and its lines
    seed_file,      \* seed_path: the same, or NoFile
    seed_ctime,     \* the change time of the last seed file there was
    seed_bak,       \* the seeds in seed_bak_path
    m_domain,       \* the known domains, with isShield and isSeed
    m_stop_domain_conf_change_time, m_seed_change_time,
    change_time,    \* update_conf's local variable
    pc,             \* the select thread
    deaths,
    stop_list,      \* history: the stop list read last in this process
    offered         \* history: all seeds the operator ever put in a file

fileVars == <<now, stop_file, seed_file, seed_ctime, offered>>
timeVars == <<m_stop_domain_conf_change_time, m_seed_change_time>>
vars == <<fileVars, seed_bak, m_domain, timeVars, change_time, pc, deaths, stop_list>>

DomainAttr == [isShield : BOOLEAN, isSeed : BOOLEAN]
NoDomains == [d \in {} |-> 0]
ShieldedDomains == {d \in DOMAIN m_domain : m_domain[d].isShield}

Init == /\ now = 0
        /\ \E L \in SUBSET DomainNames : stop_file = [ctime |-> 0, lines |-> L]
        /\ seed_file = NoFile /\ seed_ctime = -1 /\ offered = {} /\ seed_bak = {}
        /\ m_domain = NoDomains
        /\ m_stop_domain_conf_change_time = -1 /\ m_seed_change_time = -1
        /\ change_time = -1
        /\ pc = "load_input" /\ deaths = 0 /\ stop_list = {}

-----------------------------------------------------------------------------
(* The operator *)

Tick == /\ now < MaxTime
        /\ now' = now + 1
        /\ UNCHANGED <<stop_file, seed_file, seed_ctime, offered, seed_bak, m_domain,
                       timeVars, change_time, pc, deaths, stop_list>>

EditStopList ==
    /\ now > stop_file.ctime
    /\ \E L \in SUBSET DomainNames : stop_file' = [ctime |-> now, lines |-> L]
    /\ UNCHANGED <<now, seed_file, seed_ctime, offered, seed_bak, m_domain, timeVars,
                   change_time, pc, deaths, stop_list>>

\* New seeds are put down once the spider has removed the last ones.
WriteSeeds ==
    /\ seed_file = NoFile
    /\ now > seed_ctime
    /\ \E L \in SUBSET DomainNames \ {{}} :
          /\ seed_file' = [ctime |-> now, lines |-> L]
          /\ offered' = offered \cup L
    /\ seed_ctime' = now
    /\ UNCHANGED <<now, stop_file, seed_bak, m_domain, timeVars, change_time, pc,
                   deaths, stop_list>>

-----------------------------------------------------------------------------
(* The select thread *)

\* At the start and after a samsara: all domains are forgotten, and those of
\* the categories in the input list entered.
load_input_urls ==
    /\ pc = "load_input"
    /\ \E C \in SUBSET DomainNames :
          m_domain' = [d \in C |-> [isShield |-> FALSE, isSeed |-> FALSE]]
    /\ pc' = "stop"
    /\ UNCHANGED <<fileVars, seed_bak, timeVars, change_time, deaths, stop_list>>

CheckStopList ==
    /\ pc = "stop"
    /\ IF stop_file.ctime # m_stop_domain_conf_change_time
       THEN change_time' = stop_file.ctime /\ pc' = "load_stop"
       ELSE UNCHANGED change_time /\ pc' = "seed"
    /\ UNCHANGED <<fileVars, seed_bak, m_domain, timeVars, deaths, stop_list>>

\* m_domain with exactly the domains of L shielded.
Shield(L) ==
    [d \in DOMAIN m_domain \cup L |->
        [isShield |-> d \in L,
         isSeed |-> d \in DOMAIN m_domain /\ m_domain[d].isSeed]]

\* Slip: the change time is taken after the file was read.
load_stop_domain_LateTime ==
    /\ pc = "load_stop"
    /\ m_domain' = Shield(stop_file.lines)
    /\ stop_list' = stop_file.lines
    /\ m_stop_domain_conf_change_time' = now
    /\ change_time' = -1
    /\ pc' = "seed"
    /\ UNCHANGED <<fileVars, seed_bak, m_seed_change_time, deaths>>

load_stop_domain ==
    /\ pc = "load_stop"
    /\ m_domain' = Shield(stop_file.lines)
    /\ stop_list' = stop_file.lines
    /\ m_stop_domain_conf_change_time' = change_time
    /\ change_time' = -1
    /\ pc' = "seed"
    /\ UNCHANGED <<fileVars, seed_bak, m_seed_change_time, deaths>>

CheckSeeds ==
    /\ pc = "seed"
    /\ IF seed_file # NoFile /\ seed_file.ctime # m_seed_change_time
       THEN change_time' = seed_file.ctime /\ pc' = "load_seed"
       ELSE UNCHANGED change_time /\ pc' = "select"
    /\ UNCHANGED <<fileVars, seed_bak, m_domain, timeVars, deaths, stop_list>>

\* Slip: the seeds are not appended to the backup.
load_seed_NoBackup ==
    /\ pc = "load_seed"
    /\ pc' = "unlink"
    /\ UNCHANGED <<fileVars, seed_bak, m_domain, timeVars, change_time, deaths, stop_list>>

\* The seeds go to the backup and to the priority pool, their domains become
\* priority domains.
load_seed ==
    /\ pc = "load_seed"
    /\ LET L == seed_file.lines
       IN  /\ seed_bak' = seed_bak \cup L
           /\ m_domain' = [d \in DOMAIN m_domain \cup L |->
                             [isShield |-> d \in ShieldedDomains,
                              isSeed |-> d \in L \/ m_domain[d].isSeed]]
    /\ pc' = "unlink"
    /\ UNCHANGED <<fileVars, timeVars, change_time, deaths, stop_list>>

\* Slip: the file stays.
UnlinkSeeds_Keep ==
    /\ pc = "unlink"
    /\ m_seed_change_time' = change_time
    /\ change_time' = -1
    /\ pc' = "select"
    /\ UNCHANGED <<fileVars, seed_bak, m_domain, m_stop_domain_conf_change_time, deaths,
                   stop_list>>

\* load_seed's last line, and the return to update_conf.
UnlinkSeeds ==
    /\ pc = "unlink"
    /\ seed_file' = NoFile
    /\ m_seed_change_time' = change_time
    /\ change_time' = -1
    /\ pc' = "select"
    /\ UNCHANGED <<now, stop_file, seed_ctime, offered, seed_bak, m_domain,
                   m_stop_domain_conf_change_time, deaths, stop_list>>

\* select_url: a round of crawling, or a samsara.
Select == /\ pc = "select"
          /\ pc' \in {"stop", "load_input"}
          /\ UNCHANGED <<fileVars, seed_bak, m_domain, timeVars, change_time, deaths,
                         stop_list>>

SelectThread == \/ load_input_urls
                \/ CheckStopList \/ load_stop_domain
                \/ CheckSeeds \/ load_seed \/ UnlinkSeeds
                \/ Select

\* The process is killed, or exits as a file cannot be opened, and is started
\* again.
Restart == /\ deaths < MaxDeaths
           /\ deaths' = deaths + 1
           /\ m_domain' = NoDomains
           /\ m_stop_domain_conf_change_time' = -1 /\ m_seed_change_time' = -1
           /\ change_time' = -1 /\ stop_list' = {}
           /\ pc' = "load_input"
           /\ UNCHANGED <<fileVars, seed_bak>>

Next == \/ Tick \/ EditStopList \/ WriteSeeds
        \/ SelectThread
        \/ Restart

Spec == Init /\ [][Next]_vars

\* The select thread runs on, whatever the operator does.
FairSpec == Spec /\ WF_vars(SelectThread)

-----------------------------------------------------------------------------
TypeOK ==
    /\ now \in 0 .. MaxTime /\ deaths \in 0 .. MaxDeaths
    /\ stop_file \in [ctime : 0 .. now, lines : SUBSET DomainNames]
    /\ seed_file \in [ctime : 0 .. now, lines : SUBSET DomainNames] \cup {NoFile}
    /\ seed_ctime \in -1 .. now
    /\ DOMAIN m_domain \subseteq DomainNames
    /\ \A d \in DOMAIN m_domain : m_domain[d] \in DomainAttr
    /\ {m_stop_domain_conf_change_time, m_seed_change_time, change_time} \subseteq -1 .. now
    /\ {offered, seed_bak, stop_list} \subseteq SUBSET DomainNames
    /\ pc \in {"load_input", "stop", "load_stop", "seed", "load_seed", "unlink", "select"}

(* No seed is lost on disk, whenever the process dies: until load_seed     *)
(* removes the file, each of its seeds is in the backup.                   *)
SeedsSurvive ==
    offered \subseteq seed_bak \cup (IF seed_file = NoFile THEN {} ELSE seed_file.lines)

(* As update_conf says, "新加种子" (add new seeds): a seed file that is    *)
(* there is taken some time, however the process dies before.              *)
SeedsTaken == seed_file # NoFile ~> seed_file = NoFile

(* Once the operator leaves the stop list alone, before selection its last *)
(* version has been read: update_conf takes the change time before it      *)
(* reads, so that a version written meanwhile is read again.               *)
LastStopListRead == <>[](pc = "select" => stop_list = stop_file.lines)

(* As update_conf says, "更新要屏蔽的domain" (update the domains to be     *)
(* shielded): no domain of the stop list read last can be selected.  A     *)
(* samsara clears m_domain and enters the domains of the input list again  *)
(* without shields, and the stop list is not read again, as its change     *)
(* time is the one remembered.                                             *)
StopListKept ==
    pc = "select" => \A d \in stop_list \cap DOMAIN m_domain : m_domain[d].isShield
=============================================================================
