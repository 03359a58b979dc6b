------------------------------ MODULE Samsara ------------------------------
(***************************************************************************)
(* The samsara of the spider: when little is left to select, the select    *)
(* thread ends the round of crawling.  It waits for the selected queue,    *)
(* clears it, closes the output lists (next_round), turns the directories  *)
(* over with shell commands (transfer: backup is removed, input becomes    *)
(* backup, next becomes input, a new next is made), opens the lists of the *)
(* new round and loads input/cate.list (load_input_urls).  The crawl       *)
(* threads go on all the while with the URLs in their hands.  The process  *)
(* may be killed at any point and started again (start), and a command may *)
(* fail: transfer only looks whether system() could run it.                *)
(*                                                                         *)
(* A directory is named by the round, "era", its lists were written in;    *)
(* input is era 0's at first.  Of a list the model keeps which kinds of    *)
(* URLs were appended to it.  URL_INPUT_DIR and URL_OUTPUT_DIR are one     *)
(* directory, so that a restart reads what the last samsara left.          *)
(***************************************************************************)
EXTENDS Integers, FiniteSets

CONSTANTS Threads,      \* the crawl threads
          None,
          Threshold,    \* conf.min_select_threshold
          QueueSize,    \* the capacity of the selected queue
          MaxEra,       \* bound: the rounds considered
          CommandsFail  \* whether shell commands may fail

ASSUME SamsaraAssumption ==
    /\ Threshold \in Nat /\ QueueSize \in Nat /\ MaxEra \in Nat \ {0}
    /\ CommandsFail \in BOOLEAN
    /\ None \notin Int /\ None \notin {"cate", "item"}

Eras == 0 .. MaxEra
Kinds == {"cate", "item"}           \* the URLs, and the two outputs
Lists == {"cate.list", "item.list"}

VARIABLES
    backup, input, next,    \* the era's directory under each name, or None
    content,                \* era -> list -> kinds of URLs in it
    whole,                  \* eras whose lists were closed and not truncated
    newest,                 \* the last era begun
    out,                    \* mp_cate_output, mp_item_output: <<era, list>>
    sq,                     \* the selected queue: how many URLs of each kind
    hand,                   \* the URL each crawl thread works on
    sel                     \* where the select thread is, "down" if none

dirs == <<backup, input, next>>
files == <<content, whole, newest>>
vars == <<backup, input, next, content, whole, newest, out, sq, hand, sel>>

Size == sq["cate"] + sq["item"]
Closed == [k \in Kinds |-> None]
NoUrls == [k \in Kinds |-> 0]
Fresh == [l \in Lists |-> {}]

Init == /\ backup = None /\ input = 0 /\ next = 1
        /\ content = [e \in Eras |-> Fresh]
        /\ whole = {0}
        /\ newest = 1
        /\ out = Closed
        /\ sq = NoUrls
        /\ hand = [t \in Threads |-> None]
        /\ sel = "down"

-----------------------------------------------------------------------------
(* The crawl threads. *)

Take(t) == /\ hand[t] = None
           /\ \E k \in Kinds : /\ sq[k] > 0
                               /\ sq' = [sq EXCEPT ![k] = @ - 1]
                               /\ hand' = [hand EXCEPT ![t] = k]
           /\ UNCHANGED <<dirs, files, out, sel>>

\* A delayed or failed URL goes back to the queue (or is dropped by Finish).
PutBack(t) == /\ hand[t] # None
              /\ Size < QueueSize
              /\ sq' = [sq EXCEPT ![hand[t]] = @ + 1]
              /\ hand' = [hand EXCEPT ![t] = None]
              /\ UNCHANGED <<dirs, files, out, sel>>

\* CUrlOutput::append on the output for kind k; write fails on a closed one.
append(k) ==
    IF out[k] = None
      THEN UNCHANGED content
      ELSE content' = [content EXCEPT ![out[k][1]][out[k][2]] = @ \cup {k}]

\* A page is stored, or its URL given up.
Finish(t) == /\ hand[t] # None
             /\ append(hand[t]) \/ UNCHANGED content
             /\ hand' = [hand EXCEPT ![t] = None]
             /\ UNCHANGED <<dirs, whole, newest, out, sq, sel>>

-----------------------------------------------------------------------------
(* The select thread. *)

Goto(label) == sel' = label

\* The process ends: exit, or a signal.
Down == /\ Goto("down")
        /\ out' = Closed
        /\ sq' = NoUrls
        /\ hand' = [t \in Threads |-> None]

\* select_url and insert_url within a round.
Insert == /\ sel = "run"
          /\ Size < QueueSize
          /\ \E k \in Kinds : sq' = [sq EXCEPT ![k] = @ + 1]
          /\ UNCHANGED <<dirs, files, out, hand, sel>>

\* select_url found that less than Threshold is left.
Judge == /\ sel = "run"
         /\ Threshold > 0
         /\ newest < MaxEra
         /\ Goto("wait")
         /\ UNCHANGED <<dirs, files, out, sq, hand>>

\* Slip: the wait compares with != instead of >.
Waited_Exact == /\ sel = "wait"
                /\ Size = Threshold
                /\ Goto("clear")
                /\ UNCHANGED <<dirs, files, out, sq, hand>>

\* "wait for sq to finish".
Waited == /\ sel = "wait"
          /\ Size <= Threshold
          /\ Goto("clear")
          /\ UNCHANGED <<dirs, files, out, sq, hand>>

Clear == /\ sel = "clear"
         /\ sq' = NoUrls
         /\ Goto("destroy")
         /\ UNCHANGED <<dirs, files, out, hand>>

\* Slip: the outputs stay open during the transfer (lines 729-731 missing).
Destroy_Not == /\ sel = "destroy"
               /\ whole' = whole \cup ({next} \ {None})
               /\ Goto("rm")
               /\ UNCHANGED <<dirs, content, newest, out, sq, hand>>

\* next_round closes the outputs: the lists of the round are complete.
Destroy == /\ sel = "destroy"
           /\ out' = Closed
           /\ whole' = whole \cup ({next} \ {None})
           /\ Goto("rm")
           /\ UNCHANGED <<dirs, content, newest, sq, hand>>

\* One system() call of transfer: the command does its effect and the next
\* step follows; it may fail and change nothing, which goes unnoticed; or
\* system() may return -1, which ends the process where transfer returns -1.
Command(here, effect, there) ==
    /\ sel = here
    /\ \/ effect /\ Goto(there)
       \/ CommandsFail /\ UNCHANGED <<dirs, newest>> /\ Goto(there)
    /\ UNCHANGED <<content, whole, out, sq, hand>>

CommandLost(here) ==
    /\ CommandsFail
    /\ sel = here
    /\ Down
    /\ UNCHANGED <<dirs, files>>

RemoveBackup ==
    Command("rm", backup' = None /\ UNCHANGED <<input, next, newest>>, "mvInput")

\* mv -f input backup.  A backup that is still there swallows the directory.
MoveInput ==
    Command("mvInput",
            /\ IF backup = None THEN backup' = input ELSE UNCHANGED backup
            /\ input' = None
            /\ UNCHANGED <<next, newest>>, "mvNext")

\* mv -f next input; without a next it fails.
MoveNext ==
    Command("mvNext",
            /\ IF input = None THEN input' = next ELSE UNCHANGED input
            /\ next' = None
            /\ UNCHANGED <<backup, newest>>, "mkdir")

\* mkdir -p next leaves a directory that exists alone.
MakeNext ==
    Command("mkdir",
            /\ IF next = None THEN next' = newest + 1 /\ newest' = newest + 1
                              ELSE UNCHANGED <<next, newest>>
            /\ UNCHANGED <<backup, input>>, "init")

\* CUrlOutput::init of both outputs, list[k] being the file name given to
\* output k.  O_TRUNC empties the files; without the directory open fails.
OpenOutputs(list) ==
    IF next = None
      THEN out' = Closed /\ UNCHANGED <<content, whole>>
      ELSE /\ out' = [k \in Kinds |-> <<next, list[k]>>]
           /\ content' = [content EXCEPT ![next] = Fresh]
           /\ whole' = whole \ {next}

\* Slip: the path is built with INPUT_PATH.
Reopen_Input == /\ sel = "init"
                /\ out' = [k \in Kinds |->
                             IF input = None THEN None ELSE <<input, "cate.list">>]
                /\ Goto("load")
                /\ UNCHANGED <<dirs, files, sq, hand>>

\* next_round opens item.list for the categories and cate.list for the items,
\* and does not look whether it could.
Reopen == /\ sel = "init"
          /\ OpenOutputs([cate |-> "item.list", item |-> "cate.list"])
          /\ Goto("load")
          /\ UNCHANGED <<dirs, newest, sq, hand>>

\* Slip: a failed load is logged and the loop goes on.
Load_GoOn == /\ sel = "load"
             /\ Goto("run")
             /\ UNCHANGED <<dirs, files, out, sq, hand>>

\* load_input_urls; without input/cate.list the process exits.
Load == /\ sel = "load"
        /\ IF input = None THEN Down
                           ELSE Goto("run") /\ UNCHANGED <<out, sq, hand>>
        /\ UNCHANGED <<dirs, files>>

-----------------------------------------------------------------------------
(* The process. *)

Crash == /\ sel # "down"
         /\ Down
         /\ UNCHANGED <<dirs, files>>

\* start, if next is there; otherwise the spider does not come up.
Start == /\ sel = "down"
         /\ next # None
         /\ OpenOutputs([cate |-> "cate.list", item |-> "item.list"])
         /\ Goto("load")
         /\ UNCHANGED <<dirs, newest, sq, hand>>

SelectStep == \/ Waited \/ Clear \/ Destroy
              \/ RemoveBackup \/ MoveInput \/ MoveNext \/ MakeNext
              \/ Reopen \/ Load

CommandLosses == \E here \in {"mvInput", "mvNext", "mkdir"} : CommandLost(here)

Next == \/ \E t \in Threads : Take(t) \/ PutBack(t) \/ Finish(t)
        \/ Insert \/ Judge \/ SelectStep \/ CommandLosses
        \/ Crash \/ Start

Spec == Init /\ [][Next]_vars

\* The select thread runs, and the crawl threads settle the URLs they take
\* (Crawl's CrawlDrains: no URL goes back to the queue for ever).
FairSpec == /\ Spec
            /\ WF_vars(SelectStep)
            /\ \A t \in Threads : WF_vars(Take(t)) /\ SF_vars(Finish(t))

-----------------------------------------------------------------------------
TypeOK == /\ {backup, input, next} \subseteq Eras \cup {None}
          /\ content \in [Eras -> [Lists -> SUBSET Kinds]]
          /\ whole \subseteq Eras
          /\ newest \in Eras
          /\ out \in [Kinds -> (Eras \X Lists) \cup {None}]
          /\ sq \in [Kinds -> 0 .. QueueSize]
          /\ hand \in [Threads -> Kinds \cup {None}]

(* Whatever happens, a complete pair of lists is left under input or       *)
(* backup: a kill between any two commands of transfer, a command that     *)
(* fails, a restart (which truncates the lists in next), or several of     *)
(* these, never cost both.                                                 *)
ACompleteListSurvives == (input \in whole) \/ (backup \in whole)

(* The lists that were handed over do not change any more: no crawl thread *)
(* that is late with its page writes to them.                              *)
HandedOverListsFrozen ==
    [][\A e \in {input, backup} \ {None} : content'[e] = content[e]]_vars

(* While the spider crawls, what it appends goes to lists of next, the     *)
(* directory the next samsara takes over.                                  *)
AppendsReachNext ==
    sel = "run" => \A k \in Kinds : out[k] # None => out[k][1] = next

(* A samsara that began comes to its end: a new round, or the end of the   *)
(* process.                                                                *)
SamsaraEnds == sel = "wait" ~> sel \in {"run", "down"}

(* As crawl_thread's comments say, "category写入cate.list" and             *)
(* "item写入item.list": a list holds URLs of its kind only.  next_round    *)
(* swaps the two names, so this fails after the first samsara.             *)
ListsHoldTheirKind ==
    \A e \in Eras : /\ content[e]["cate.list"] \subseteq {"cate"}
                    /\ content[e]["item.list"] \subseteq {"item"}
=============================================================================
