----------------------------- MODULE UrlOutput -----------------------------
(***************************************************************************)
(* CUrlOutput (url_output.cpp): cate.list and item.list, to which the      *)
(* crawl threads append under a mutex, and fail.list, whose append_error   *)
(* formats the line in the shared buffer m_buf before it takes the mutex.  *)
(* At a samsara the select thread closes the output and opens it again     *)
(* without regard to the threads that are inside.                          *)
(*                                                                         *)
(* A line is a sequence of cells, the URL and the reason at their lengths  *)
(* and the time at TimeLen.  A memset or sprintf is one step; what two of  *)
(* them mix byte by byte comes out no better than what they mix here, and  *)
(* nothing is claimed of it.  glibc's mutex: destroying it while it is     *)
(* held fails, locking a destroyed one returns without it, initialising    *)
(* it sets it free whoever holds it, and unlocking asks nobody.            *)
(*                                                                         *)
(* m_buf has a fixed length, and no print asks whether its line fits: the  *)
(* URL of a link may have any length.  A print past m_buf's end, where the *)
(* object ends too, is undefined; the model is wild then and goes no       *)
(* further, so that all it says is said of the time before.                *)
(***************************************************************************)
EXTENDS Integers, Sequences, FiniteSets, SequencesExt

CONSTANTS
    Threads,
    UrlLens,        \* the URLs, named by their lengths
    ReasonLens,     \* the reasons, by their lengths: 8 to 27 in the code
    TimeLen,        \* 10 in the code
    BufLen,         \* of m_buf: 5120 in the code
    Fds,            \* file descriptors
    MaxSamsaras     \* bound: how often the output is closed

ASSUME UrlOutputAssumption ==
    /\ UrlLens \subseteq Nat \ {0} /\ ReasonLens \subseteq Nat \ {0}
    /\ TimeLen \in Nat \ {0} /\ BufLen \in Nat \ {0}
    /\ Fds \subseteq Nat /\ Fds # {}
    /\ MaxSamsaras \in Nat

NUL == <<"NUL", 0>>
Blank == [i \in 1 .. BufLen |-> NUL]
Free == "free"                  \* of the mutex
Destroyed == "destroyed"

ASSUME ThreadsAssumption == Threads \cap {Free, Destroyed} = {}

None == -1                      \* of a descriptor: not open
Other == -2                     \* not this output's

VARIABLES
    kind,           \* which output this is: "list" or "fail"
    m_fd, m_mutex, m_buf,
    files,          \* of each descriptor: the list's round, Other or None
    round,          \* the list's round
    sel,            \* the select thread
    pc, url, reason, arg,   \* the crawl threads: arg is write's <<fd, length>>
    wild,           \* something was printed past the end of m_buf
    undisturbed     \* history: nothing came between since a thread went in

callVars == <<url, reason, arg>>
fdVars == <<m_fd, files, round>>
vars == <<kind, m_fd, m_mutex, m_buf, files, round, sel, pc, url, reason, arg, wild,
          undisturbed>>

Inside == {t \in Threads : pc[t] # "out"}

\* The lowest free descriptor, as open and socket return it.
LowestFree == Min({f \in Fds : files[f] = None})

Init == /\ kind \in {"list", "fail"}
        /\ m_fd = Min(Fds)
        /\ files = [f \in Fds |-> IF f = Min(Fds) THEN 0 ELSE None]
        /\ round = 0 /\ sel = "open"
        /\ m_mutex = Free
        /\ m_buf = Blank
        /\ pc = [t \in Threads |-> "out"]
        /\ url = [t \in Threads |-> 0] /\ reason = [t \in Threads |-> 0]
        /\ arg = [t \in Threads |-> <<-1, 0>>]
        /\ wild = FALSE
        /\ undisturbed = [t \in Threads |-> FALSE]

-----------------------------------------------------------------------------
(* The buffer *)

Cells(name, n) == [i \in 1 .. n |-> <<name, i>>]
Tab == <<"tab", 0>>
Newline == <<"newline", 0>>

\* Whether s, printed at an offset, ends within m_buf, its NUL included.
Fits(offset, s) == offset + Len(s) < BufLen

\* sprintf of an s that fits at an offset: with a terminating NUL.
sprintf(offset, s) ==
    [i \in 1 .. BufLen |->
        CASE i \in offset + 1 .. offset + Len(s) -> s[i - offset]
          [] i = offset + Len(s) + 1 -> NUL
          [] OTHER -> m_buf[i]]

strlen(buf) == Min({i \in 1 .. BufLen : buf[i] = NUL}) - 1

Url(t) == Cells("url", url[t])
Time == Cells("time", TimeLen)
Reason(t) == Cells("reason", reason[t])

\* What is printed: append's two prints end where its line does.
ListText(t) == Url(t) \o <<Tab>> \o Time \o <<Newline>>
UrlText(t) == Url(t) \o <<Tab>>
TimeText == Time \o <<Tab>>
ReasonText(t) == Reason(t) \o <<Newline>>

-----------------------------------------------------------------------------
(* The crawl threads *)

Step(t, from, to) == pc[t] = from /\ pc' = [pc EXCEPT ![t] = to]

\* lock, as far as it goes.
Lock(t) == \/ m_mutex = Free /\ m_mutex' = t
           \/ m_mutex = Destroyed /\ UNCHANGED m_mutex

Unlock == m_mutex' = IF m_mutex = Destroyed THEN Destroyed ELSE Free

\* Slip: nothing is locked.
append_Unlocked(t) ==
    /\ kind = "list"
    /\ Step(t, "out", "format")
    /\ \E u \in UrlLens : url' = [url EXCEPT ![t] = u]
    /\ undisturbed' =
          [undisturbed EXCEPT ![t] = sel = "open" /\ \A s \in Inside : undisturbed[s]]
    /\ UNCHANGED <<kind, wild, fdVars, m_mutex, m_buf, sel, reason, arg>>

\* append: the lock comes first.
append(t) ==
    /\ kind = "list"
    /\ Step(t, "out", "format")
    /\ Lock(t)
    /\ \E u \in UrlLens : url' = [url EXCEPT ![t] = u]
    /\ undisturbed' =
          IF m_mutex = Free
          THEN [undisturbed EXCEPT ![t] = sel = "open" /\ \A s \in Inside : undisturbed[s]]
          ELSE [s \in Threads |-> FALSE]
    /\ UNCHANGED <<kind, wild, fdVars, m_buf, sel, reason, arg>>

FormatLine(t) ==
    /\ Step(t, "format", "args")
    /\ Fits(0, ListText(t))
    /\ m_buf' = [i \in 1 .. BufLen |->
                   IF i <= Len(ListText(t)) THEN ListText(t)[i] ELSE NUL]
    /\ UNCHANGED <<kind, wild, fdVars, m_mutex, sel, callVars, undisturbed>>

\* append_error: the line is put together before the lock is taken.
append_error(t) ==
    /\ kind = "fail"
    /\ Step(t, "out", "url")
    /\ m_buf' = Blank
    /\ \E u \in UrlLens, r \in ReasonLens : /\ url' = [url EXCEPT ![t] = u]
                                            /\ reason' = [reason EXCEPT ![t] = r]
    /\ undisturbed' = [s \in Threads |-> s = t /\ Inside = {} /\ sel = "open"]
    /\ UNCHANGED <<kind, wild, fdVars, m_mutex, sel, arg>>

FormatUrl(t) ==
    /\ Step(t, "url", "time")
    /\ Fits(0, UrlText(t))
    /\ m_buf' = sprintf(0, UrlText(t))
    /\ UNCHANGED <<kind, wild, fdVars, m_mutex, sel, callVars, undisturbed>>

FormatTime(t) ==
    /\ Step(t, "time", "reason")
    /\ Fits(url[t] + 1, TimeText)
    /\ m_buf' = sprintf(url[t] + 1, TimeText)
    /\ UNCHANGED <<kind, wild, fdVars, m_mutex, sel, callVars, undisturbed>>

\* Slip: the tab after the URL is forgotten in the offset.
ReasonOffset_Short(t) == url[t] + reason[t] + 1

\* The place of the reason is computed from its own length, not the time's.
ReasonOffset(t) == url[t] + 1 + reason[t] + 1

FormatReason(t) ==
    /\ Step(t, "reason", "lock")
    /\ Fits(ReasonOffset(t), ReasonText(t))
    /\ m_buf' = sprintf(ReasonOffset(t), ReasonText(t))
    /\ UNCHANGED <<kind, wild, fdVars, m_mutex, sel, callVars, undisturbed>>

\* A print that does not fit.
Overrun(t) ==
    /\ \/ pc[t] = "format" /\ ~Fits(0, ListText(t))
       \/ pc[t] = "url" /\ ~Fits(0, UrlText(t))
       \/ pc[t] = "time" /\ ~Fits(url[t] + 1, TimeText)
       \/ pc[t] = "reason" /\ ~Fits(ReasonOffset(t), ReasonText(t))
    /\ wild' = TRUE
    /\ UNCHANGED <<kind, fdVars, m_mutex, m_buf, sel, pc, callVars, undisturbed>>

LockLate(t) ==
    /\ Step(t, "lock", "args")
    /\ Lock(t)
    /\ UNCHANGED <<kind, wild, fdVars, m_buf, sel, callVars, undisturbed>>

\* The arguments of write ...
Arguments(t) ==
    /\ Step(t, "args", "write")
    /\ arg' = [arg EXCEPT ![t] = <<m_fd, strlen(m_buf)>>]
    /\ UNCHANGED <<kind, wild, fdVars, m_mutex, m_buf, sel, url, reason, undisturbed>>

\* ... and the call.  Whether it fails, for want of a file or of space, is the
\* same to the output: the mutex is unlocked either way.
Write(t) ==
    /\ Step(t, "write", "out")
    /\ Unlock
    /\ url' = [url EXCEPT ![t] = 0] /\ reason' = [reason EXCEPT ![t] = 0]
    /\ arg' = [arg EXCEPT ![t] = <<-1, 0>>]
    /\ undisturbed' = [undisturbed EXCEPT ![t] = FALSE]
    /\ UNCHANGED <<kind, wild, fdVars, m_buf, sel>>

CrawlStep(t) == \/ append(t) \/ FormatLine(t)
                \/ append_error(t) \/ FormatUrl(t) \/ FormatTime(t) \/ FormatReason(t)
                \/ Overrun(t)
                \/ LockLate(t)
                \/ Arguments(t) \/ Write(t)

-----------------------------------------------------------------------------
(* The select thread: destroy, and init on the list of the next round *)

Close == /\ sel = "open"
         /\ round < MaxSamsaras
         /\ IF m_fd = -1 THEN UNCHANGED files ELSE files' = [files EXCEPT ![m_fd] = None]
         /\ undisturbed' = [t \in Threads |-> FALSE]
         /\ sel' = "forget"
         /\ UNCHANGED <<kind, wild, m_fd, round, m_mutex, m_buf, pc, callVars>>

\* Slip: the number of the closed descriptor is kept.
Forget_Not == /\ sel = "forget"
              /\ m_mutex' = IF m_mutex = Free THEN Destroyed ELSE m_mutex
              /\ sel' = "closed"
              /\ UNCHANGED <<kind, wild, fdVars, m_buf, pc, callVars, undisturbed>>

\* m_fd is reset, and the mutex destroyed if nobody holds it.
Forget == /\ sel = "forget"
          /\ m_fd' = -1
          /\ m_mutex' = IF m_mutex = Free THEN Destroyed ELSE m_mutex
          /\ sel' = "closed"
          /\ UNCHANGED <<kind, wild, files, round, m_buf, pc, callVars, undisturbed>>

\* init: without the file the mutex is not initialised either.
Open == /\ sel = "closed"
        /\ \/ /\ \E f \in Fds : files[f] = None
              /\ m_fd' = LowestFree
              /\ files' = [files EXCEPT ![LowestFree] = round + 1]
              /\ sel' = "init"
           \/ /\ m_fd' = -1 /\ UNCHANGED files
              /\ sel' = "open"
        /\ round' = round + 1
        /\ undisturbed' = [t \in Threads |-> FALSE]
        /\ UNCHANGED <<kind, wild, m_mutex, m_buf, pc, callVars>>

InitMutex == /\ sel = "init"
             /\ m_mutex' = Free
             /\ undisturbed' = [t \in Threads |-> FALSE]
             /\ sel' = "open"
             /\ UNCHANGED <<kind, wild, fdVars, m_buf, pc, callVars>>

\* Elsewhere in the process files and sockets are opened and closed.
OtherOpen == /\ \E f \in Fds : files[f] = None
             /\ files' = [files EXCEPT ![LowestFree] = Other]
             /\ UNCHANGED <<kind, wild, m_fd, round, m_mutex, m_buf, sel, pc, callVars, undisturbed>>

OtherClose == /\ \E f \in Fds : /\ files[f] = Other
                                /\ files' = [files EXCEPT ![f] = None]
              /\ UNCHANGED <<kind, wild, m_fd, round, m_mutex, m_buf, sel, pc, callVars, undisturbed>>

Next == /\ ~wild
        /\ \/ \E t \in Threads : CrawlStep(t)
           \/ Close \/ Forget \/ Open \/ InitMutex
           \/ OtherOpen \/ OtherClose

Spec == Init /\ [][Next]_vars

-----------------------------------------------------------------------------
TypeOK == /\ kind \in {"list", "fail"}
          /\ m_fd \in Fds \cup {-1}
          /\ m_mutex \in Threads \cup {Free, Destroyed}
          /\ m_buf = [i \in 1 .. BufLen |-> m_buf[i]]
          /\ files \in [Fds -> 0 .. MaxSamsaras \cup {Other, None}]
          /\ round \in 0 .. MaxSamsaras
          /\ sel \in {"open", "forget", "closed", "init"}
          /\ pc \in [Threads -> {"out", "format", "url", "time", "reason", "lock", "args",
                                 "write"}]
          /\ url \in [Threads -> UrlLens \cup {0}]
          /\ reason \in [Threads -> ReasonLens \cup {0}]
          /\ arg \in [Threads -> (Fds \cup {-1}) \X (0 .. BufLen - 1)]
          /\ wild \in BOOLEAN
          /\ undisturbed \in [Threads -> BOOLEAN]

\* What write is about to be given by t.
Line(t) == SubSeq(m_buf, 1, arg[t][2])

(* A line of cate.list or item.list is whole, and goes to the list of the  *)
(* round, whatever the other threads append, unless the output was closed  *)
(* or opened while its thread or one it met was inside.                    *)
ListLineWhole ==
    \A t \in Threads :
        kind = "list" /\ pc[t] = "write" /\ undisturbed[t] =>
            /\ arg[t][1] = -1 \/ files[arg[t][1]] = round
            /\ Line(t) = ListText(t)

(* A line of fail.list whose thread met no other in append_error: the URL  *)
(* and all but the last cells of the time are there, and the reason and    *)
(* the end of the line exactly if the reason is no longer than the time.   *)
FailLineAlone ==
    \A t \in Threads :
        kind = "fail" /\ pc[t] = "write" /\ undisturbed[t] =>
            /\ IsPrefix(UrlText(t), Line(t))
            /\ reason[t] >= TimeLen - 1 => IsPrefix(Url(t) \o <<Tab>> \o Time, Line(t))
            /\ reason[t] <= TimeLen <=> IsSuffix(ReasonText(t), Line(t))

(* m_fd names the list of the round or nothing, never a file that was      *)
(* opened elsewhere under the number of the closed list, except between    *)
(* destroy's close and its reset of m_fd: what a thread appends then goes  *)
(* into that file.                                                         *)
FdIsTheLists == m_fd = -1 \/ files[m_fd] = round \/ sel = "forget"
=============================================================================
