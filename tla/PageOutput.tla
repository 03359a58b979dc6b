----------------------------- MODULE PageOutput -----------------------------
(***************************************************************************)
(* CPageOutput (page_output.cpp): the crawl threads' page file.  A call of *)
(* append reads the clock under the mutex, makes the directory of a new    *)
(* day, and opens another file when the index of the interval within the   *)
(* hour is not the one it remembers.  A call without a page is made at the *)
(* top of each crawl thread's loop, so that an interval without pages has  *)
(* its (empty) file too; one with a page by write_page_list.               *)
(*                                                                         *)
(* The clock is the minute within a month of Days days; what a day of the  *)
(* last month left behind is gone when the day comes again.  The interval  *)
(* is read twice in a call, and update_conf may reload it in between.      *)
(***************************************************************************)
EXTENDS Integers, FiniteSetsExt

CONSTANTS
    Days, DayHours, HourMins,   \* 31, 24 and 60 in the code
    Intervals,                  \* of page_name_change_interval
    MaxGap,                     \* bound: the minutes without a call
    MaxReloads                  \* bound

ASSUME PageOutputAssumption ==
    /\ Days \in Nat \ {0, 1} /\ DayHours \in Nat \ {0} /\ HourMins \in Nat \ {0}
    /\ Intervals \subseteq Nat \ {0}
    /\ MaxGap \in 1 .. DayHours * HourMins /\ MaxReloads \in Nat

Month == Days * DayHours * HourMins
Day(t) == t \div (DayHours * HourMins)
Hour(t) == (t \div HourMins) % DayHours

\* The index of the interval within the hour.
Index(t, int) == (t % HourMins) \div int

NoFile == <<-1, -1, -1>>
Failed == -1

\* The file of minute t: its day, its hour and the minute it begins with.
FileOf(t, int) == <<Day(t), Hour(t), Index(t, int) * int>>

VARIABLES
    now, interval, reloads,
    disk,               \* "full": mkdir, open and write may fail
    dirs,               \* the days that have a directory
    m_fd, m_cur_day, m_cur_min, m_mutex,
    tm,                 \* the last call: its time, interval and index, and
                        \* the minutes since the one before that succeeded
    need_write, ret,    \* whether it has a page, and what it returned
    lapse               \* history: the file is not the one of the interval

vars == <<now, interval, reloads, disk, dirs, m_fd, m_cur_day, m_cur_min, m_mutex,
          tm, need_write, ret, lapse>>
env == <<now, interval, reloads, disk>>
files == <<dirs, m_fd, m_cur_day, m_cur_min>>

Init == /\ now = 0 /\ interval \in Intervals /\ reloads = 0 /\ disk = "ok"
        /\ dirs = {} /\ m_fd = NoFile /\ m_cur_day = -1 /\ m_cur_min = -1
        /\ m_mutex = "free"
        /\ tm = [time |-> 0, interval |-> interval, index |-> -1, gap |-> 0]
        /\ need_write = FALSE /\ ret = Failed /\ lapse = FALSE

-----------------------------------------------------------------------------
(* The world *)

Waited == (now - tm.time) % Month

Tick(g) ==
    /\ Waited + g <= MaxGap
    /\ now' = (now + g) % Month
    /\ dirs' = IF Day(now') = Day(now) THEN dirs ELSE dirs \ {Day(now')}
    /\ UNCHANGED <<interval, reloads, disk, m_fd, m_cur_day, m_cur_min, m_mutex,
                   tm, need_write, ret, lapse>>

Fill == /\ disk' = IF disk = "ok" THEN "full" ELSE "ok"
        /\ UNCHANGED <<now, interval, reloads, files, m_mutex, tm, need_write, ret, lapse>>

\* update_conf, by the select thread.
Reload == /\ reloads < MaxReloads /\ reloads' = reloads + 1
          /\ interval' \in Intervals \ {interval}
          /\ lapse' = TRUE
          /\ UNCHANGED <<now, disk, files, m_mutex, tm, need_write, ret>>

-----------------------------------------------------------------------------
(* append *)

\* Lock, and the time: lines 51 to 60.
Time == /\ m_mutex = "free" /\ m_mutex' = "held"
        /\ need_write' \in BOOLEAN
        /\ tm' = [time |-> now, interval |-> interval, index |-> Index(now, interval),
                  gap |-> Min({HourMins, Waited + IF ret = Failed THEN tm.gap ELSE 0})]
        /\ UNCHANGED <<env, files, ret, lapse>>

Fail == ret' = Failed /\ m_mutex' = "free" /\ UNCHANGED lapse

\* Line 67 comes before the mkdir: what fails is not tried again that day.
NoDir == /\ m_mutex = "held"
         /\ Day(tm.time) \notin dirs \cup {m_cur_day}
         /\ disk = "full"
         /\ m_cur_day' = Day(tm.time)
         /\ Fail
         /\ UNCHANGED <<env, dirs, m_fd, m_cur_min, tm, need_write>>

\* Slip: only the first day's directory is made.
EnterDay_Once == /\ m_mutex = "held"
                 /\ m_cur_day' = Day(tm.time)
                 /\ dirs' = IF m_cur_day # -1 THEN dirs ELSE dirs \cup {Day(tm.time)}

\* The directory is there, or was when last asked for.
EnterDay == /\ m_mutex = "held"
            /\ m_cur_day' = Day(tm.time)
            /\ dirs' = IF Day(tm.time) = m_cur_day THEN dirs ELSE dirs \cup {Day(tm.time)}

\* Slip: the interval is remembered although the file was not opened.
NoOpen_Remembered == m_fd' = NoFile /\ m_cur_min' = tm.index

\* The file did not open: the next call tries again.
NoOpen == m_fd' = NoFile /\ UNCHANGED m_cur_min

Switches == tm.index # m_cur_min

NoFileOpened == /\ EnterDay
                /\ Switches
                /\ disk = "full" \/ Day(tm.time) \notin dirs'
                /\ NoOpen
                /\ Fail
                /\ UNCHANGED <<env, tm, need_write>>

\* The name is made of the index and the interval as it is now.
Open == /\ Day(tm.time) \in dirs'
        /\ m_fd' = <<Day(tm.time), Hour(tm.time), tm.index * interval>>
        /\ m_cur_min' = tm.index
        /\ lapse' = (interval # tm.interval)

\* The file is left as it is, which is right if the last call that succeeded
\* was not too long ago.
Stay == /\ lapse' = (lapse \/ tm.gap > HourMins - Min({HourMins, tm.interval}))
        /\ UNCHANGED <<m_fd, m_cur_min>>

Append == /\ EnterDay
          /\ IF Switches THEN Open ELSE Stay
          /\ \/ (need_write => m_fd' # NoFile) /\ ret' = 0
             \/ need_write /\ (m_fd' = NoFile \/ disk = "full") /\ ret' = Failed
          /\ m_mutex' = "free"
          /\ UNCHANGED <<env, tm, need_write>>

append == NoDir \/ NoFileOpened \/ Append

Next == Time \/ append \/ Fill \/ Reload \/ \E g \in 1 .. MaxGap : Tick(g)

Spec == Init /\ [][Next]_vars

\* The clock goes on, and the crawl threads come round to append (Time) and
\* out of it.
FairSpec == Spec /\ WF_vars(Time) /\ WF_vars(append) /\ WF_vars(\E g \in 1 .. MaxGap : Tick(g))

-----------------------------------------------------------------------------
Names == (0 .. Days - 1) \X (0 .. DayHours - 1) \X Nat

TypeOK == /\ now \in 0 .. Month - 1 /\ interval \in Intervals /\ reloads \in 0 .. MaxReloads
          /\ disk \in {"ok", "full"} /\ dirs \subseteq 0 .. Days - 1
          /\ m_fd \in Names \cup {NoFile}
          /\ m_cur_day \in -1 .. Days - 1 /\ m_cur_min \in -1 .. HourMins - 1
          /\ m_mutex \in {"free", "held"}
          /\ tm \in [time : 0 .. Month - 1, interval : Intervals, index : -1 .. HourMins - 1,
                    gap : 0 .. HourMins]
          /\ need_write \in BOOLEAN /\ ret \in {0, Failed} /\ lapse \in BOOLEAN

(* After a call that succeeded the open file is that of the call's         *)
(* interval: pages go where they belong, and an interval without pages has *)
(* its empty file ("even if no page is fetched, write an empty page.list", *)
(* crawl_thread).  Not so after a reload, nor where the index of the       *)
(* interval comes round unseen: when no call succeeded for an hour less    *)
(* the interval, and always for an interval of an hour or more.            *)
FileOfTheInterval == ret = 0 /\ ~lapse /\ m_mutex = "free" => m_fd = FileOf(tm.time, tm.interval)

(* Once nothing fails any more and the threads call every minute, the page *)
(* file is back: the directory that was not made when its day began holds  *)
(* everything up until the next day, but no longer.  Not so where the      *)
(* index never changes, with an interval of an hour or more.               *)
PagesResume ==
    <>[](disk = "ok" /\ Waited <= 1 /\ interval < HourMins) => []<>(ret = 0 /\ m_fd # NoFile)
=============================================================================
