# The spider, specified

This directory holds TLA+ specifications of the crawler in `src/`, the TLC
configurations that check them on small instances, and TLAPS proofs of what
matters most about them for every instance. `PROJECT.json` lists components,
runs, mutants (one plausible slip per checked property, which TLC must notice),
the source lines behind every definition, findings, hazards and theorems.

## The system and its parts

The process has one select thread and `WORK_THREAD_NUM` crawl threads
(`spider.cpp`, `start`). They share:

| Part | State | Operations | Used by |
|---|---|---|---|
| URL pools cpq, ipq, coq, ioq (`urlpool`) | `m_url_set`, `m_url_queue`, two mutexes | push_url, add_to_que, clear_urls | crawl threads push links; select thread drains, gives back, clears |
| selected queue (`selected_queue`) | deque, count, capacity | push, pop, clear, size | select thread fills and clears; crawl threads pop and push back |
| level pool (`level_pool`) | per site: crawlers, last admission | is_crawl_enabled, finish_crawl | crawl threads |
| DNS client (`dns_client`, `udpdns`) | site → address map, two mutexes | get_ip, clear_map | crawl threads; select thread in insert_url |
| URL outputs cate/item/fail (`url_output`) | descriptor, buffer, mutex | init, destroy, append, append_error | crawl threads append; select thread turns them over |
| page output (`page_output`) | current file, day, minute slot | append | crawl threads |
| statistics (`spider_statis`) | counters per domain | update, set, get, write to file | both |
| configuration (`load_conf`, `update_conf`, stop domains, seeds) | `CSpiderConf`, `m_domain` | reload | select thread writes, all read |
| directories `backup`, `input`, `next` | the lists of the rounds | transfer | select thread |

A URL's life: select_url takes it from a pool into `m_select_buffer`, insert_url
pushes it to the selected queue, a crawl thread pops it, resolves its site,
asks the level pool, fetches it (following redirections), gives the slot back,
and then discards it, queues it again, or stores it and pushes its links to the
pools. When little is left the select thread starts a *samsara*: it turns the
directories over and begins again from the categories written in the round.

What is hard here: both kinds of threads push to a bounded queue; get_ip leaves
its lock to query; replies to a query are lost or late; limits are reloaded while
they are in use; the pools are drained under a copied mutex; the outputs are
closed, moved and reopened under the crawl threads; the process may be killed
between two shell commands of a samsara. What makes the parts correct:

- level pool: one finish per admission; limits and intervals kept; no site shut
  out for good;
- selected queue: bounded, counted right;
- DNS client and messages: one query at a time, one answer per site between two
  clears, an address of the site that was asked for, a failure only after all
  attempts, callers are answered;
- crawl threads: every URL ends in a known way, none goes round for ever, copies
  are bounded, the protocols of the other parts are kept on every path;
- samsara: the lists of a finished round survive, are not written any more, and
  hold what their names say;
- pools and selection: no URL lost or doubled between pool, buffer and left-over
  lists; quotas kept, the oldest first, no domain starved; the numbers add up;
- outputs: one line per URL, with its fields, in the list of the round; a new page
  file per interval, and pages again after a failure;
- rule file: read and applied as written, and to an end;
- configuration: no seed is lost, a stop list is in force.

The hazards in `PROJECT.json` name the lines where each of these may go wrong.

## Modules

**LevelPool** models `CLevelPool` with the threads that use it. `m_pool` is a
partial function from sites to entries; `is_crawl_enabled` is `Admit` or
`Refuse`, `finish_crawl` is itself, both atomic because the code holds the
mutex. The code uses the clock only as `now - last_crawl_time`, so an entry keeps
that difference (`age`), which `Tick` advances up to `Horizon`, a value not below
any configured interval: nothing in the code tells larger ages apart. The clock
is assumed not to be set back. `ReloadLimit` and `ReloadInterval` are load_conf's
assignments, made by the select thread without the mutex, each at any time and in
any order, but not within one call of is_crawl_enabled, which here reads both limits
at one instant. `quiet` is a history variable: the time since a site was last admitted,
kept without looking at the pool.

**SelectedQueue** models `CSelectedQueue`: the deque and its counter.

**DnsCache** is what the DNS client promises: a lookup hits, or misses and is
answered later; the first answer recorded stays; `clear_map` forgets all.
**UdpDns** has the messages of `CUdpDns` byte by byte as pure operators:
`set_dns_query` with the header as the compiler lays out its bit fields (the code
sets AA and RA, which come out as bits 5 and 8 of the flags; bit 8 is RD on the
wire, so recursion is asked for, if by accident), `get_dns_resonse_head` and
`get_dns_response`; and the server's side of both, external.
**DnsClient** is `CDnsClient` in detail: up to three queries under
`m_singleton_mutex`, each with a socket of its own, a datagram that may be lost or
come after select's timeout, a sleep after each failure, the record written under
`m_ip_mutex` long after the lookup. All queries carry one id, so nothing in the
message tells a late reply from the present one; that the kernel does not reuse a
port while a datagram to it is under way is an assumption (`udp_connect`), and
the mutant that drops it breaks AddressOfTheSite. `CacheSpec` says that DnsClient implements
DnsCache (same `m_ip_list`; `asking` is the site a caller is resolving; `ip` what
get_ip returned). **MCDnsClient** gives it two names, an address and their zones.

**Crawl** composes SelectedQueue, LevelPool and DnsCache (INSTANCE) with the loop
of `crawl_thread`, in its order: Take or Discard; LookUp, GetIp; RequeueNoIp;
Enter or Delay; Fetched; NotFound; Follow, GetRedirectIp; Leave; RedirectNotFound,
NetFail or Store. A *job* is a URL with the pool it came from; copies of it in the
queue and in the threads carry `fail_count` and `dns_count`. `http.Fetch` is
external: its result is any member of `Outcomes`, a redirection may name any site
or have no usable location (a location starting with `/` names the URL's own
site). The resolver answers from `Resolver`. An address is named like its site.
The select thread is modelled as far as it touches these parts. It goes through the
pools one by one, copying each queue (`Copy`) and clearing it (`ClearDrained`) under a
mutex that is itself a copy: what a crawl thread pushes in between is gone, and a copy
made of a held mutex hangs the select thread (`Hang`), as in Selection. `select_url`
then takes any set of the jobs whose domain is known and not shielded (the quotas are
Selection's), and `insert_url` gives back those that fit their domain's class and loses
the others, clears the address map, looks up the sites again and pushes the buffer in
any order (it was shuffled), waiting while the queue is full. Any round may be the last
of the samsara: the selected queue is cleared (`EndSamsara`; the wait before it is
Samsara's), then the pools (`clear_urls`), under crawl threads that go on. A behaviour
of Crawl ends there for the select thread; what a samsara carries over to the next is
Selection's concern. The pools are the sets of known and of waiting jobs, and all the pushes
of a page are one step, as are the two critical sections of clear_urls (Selection has
them apart). `seen` is a history variable: what ever entered a pool. `fate` is a
history variable: how the copies of each job ended; an item that is on the list
may still lose its page (`write_page_list`). A URL gets into a pool as a seed or
as a link, which must parse; the normal form of an item's link need not. A pause, or a page output
that fails, only keeps a thread from Take. The limits other than the level pool's
are constants here. **MCCrawl** gives it small webs.

**Samsara** models the turn of a round: `select_url`'s wait and clear, `next_round`,
`transfer` command by command, `load_input_urls`, `start`, a kill at any point. A
directory is identified by the era its lists belong to. A command takes effect, or
fails unnoticed (its exit status is ignored), or cannot be run (system() = -1),
after which the process exits except for `rm`. A failing `rm -rf` is assumed to remove
nothing: ACompleteListSurvives rests on that, for when `mv` then moves input into the
backup that is still there, that backup's lists are the complete ones left. `mv` onto a directory that exists
moves into it, so that the moved one is gone from the three names. Crawl threads
are reduced to taking URLs, putting them back and appending. The operator, who may
repair directories by hand, is not modelled.

**Domains** models `m_domain` and the two files an operator changes while the spider
runs, the stop list and the seed file: `update_conf`'s checks of their change times (its reload of the main configuration is in LevelPool and Crawl),
`load_stop_domain`, `load_seed` (its unlink a step of its own), `load_input_urls` as far
as it clears and fills `m_domain`, and a kill at any point. Time is in seconds, as
`st_ctime`. One seed stands for a domain's; `seed_bak` is what the backup file holds.
The operator writes a seed file only when there is none, and no file twice within a second.
Writing the backup is assumed to succeed: load_seed ignores the results of fprintf and
fclose, so that on a full disk the seeds would be unlinked without a backup.

**UrlPool** has the four pools with their two mutexes: `push_url` enters a URL in
`m_url_set` and queues it in a second step, `clear_urls` empties queue and set one
after the other. **Selection** composes it with the select thread: `select_url`'s
reading of the sizes, its passage through each queue (`Copy`) and the clearing of it
(`ClearDrained`), the quotas of each domain, the two loops, the filling up from the
left-overs, the numbers for the statistics; `insert_url`'s return of the left-overs;
the end of a samsara, where `load_input_urls` empties the pools while the lists
are carried over. The mutex of a pool is copied by `get_url_mutex`, so a crawl
thread may push between Copy and ClearDrained, and a copy made of a held mutex
hangs the select thread (`Hang`; nothing is claimed after it but that nothing else
is lost). The proofs are about Spec; the run checks FairSpec, which adds the fairness
below. The code's constants 10, 20, 5 and 3 are MinQuota, Slack, Reserve and
MinRounds. A PRIORITY_QUOTA above 10, which load_conf lets pass, would make the number
for the ordinary domains negative and is excluded (SelectionAssumption). The selected queue and `m_sites` are in Crawl, where the quotas are open.
**MCSelection** names the URLs.

**UrlOutput** is one `CUrlOutput`, cate.list or item.list ("list") or fail.list
("fail"), memset by sprintf by write, with `m_buf` as cells; the select thread
closes and reopens it, and other parts of the process open and close descriptors.
`undisturbed` is a history variable: neither another append_error nor a samsara
came between since a thread went in. A sprintf is one step: finer mixtures only
worsen lines of which nothing is claimed already. `m_buf` has a fixed length, `BufLen`
(5120 in the code), and no print asks whether its line fits, though the URL of a link may
have any length. A print that does not fit writes behind the object, which is
undefined: `Overrun` makes the model `wild`, and no step follows; what is claimed is
claimed of the time before. glibc's behaviour for a
mutex that is destroyed or initialised while in use is assumed, as the comment
says.

**PageOutput** is `CPageOutput::append`: the clock read under the mutex, the
directory of a new day, the file of a new interval, and mkdir, open and write
failing while the disk is full. The interval is read twice in a call, with a reload
possible between. An interval of 0, which load_conf lets pass (it refuses only negative
ones), would divide by zero in append and is excluded (PageOutputAssumption). `lapse` is a history variable: the file may rightly be another one.

**UrlRecognizer** is `CUrlRecognizer`: `load_conf` as a machine that reads a file
chosen line by line, `get_type` and `normalize` as operators on the rules. What a
rule file should be is defined apart, from the shipped `conf/strong_rule.conf`
(`InPlace`, `Complete`, `Written`); that file, 2435 lines, is in order by it.

Definitions whose name has a suffix after `_` (`Admit_OldTime`) and a comment that
begins with "Slip" are the mutants; no specification uses them.

## Runs

| Run | Instance | What it shows |
|---|---|---|
| level_pool | 3 threads, 2 sites, limits 1–2, intervals 1–2, Horizon 2 | accounting, limits, spacing, and no site shut out (liveness) |
| dns_client | 1 crawl thread and the select thread, 2 names and an address, 2 ports, 3 attempts | refinement of DnsCache, the site's own address, singleton query, progress |
| crawl_fetch | 2 threads, seeds on one site, links to an item of an unknown domain and to one whose normal form does not parse, pages, 404s and redirections, capacity 1, limit 1, interval 1–2 reloaded, the end of the samsara; threads symmetric | protocols kept, nothing vanishes |
| crawl_dns | 1 URL on a site that resolves now and then, fetches that fail, capacity 4 = 2^(1+1), limit 1–2 reloaded | copies bounded and fitting, all settled (liveness) |
| samsara | 2 threads, capacity 2, threshold 1, eras 0–3, failing commands, kills | lists survive and stay frozen, samsara ends (liveness) |
| samsara_lists | the same, commands succeed, kills allowed | a finding |
| domains | 2 domains, seconds 0–2, one kill, any number of samsaras | seeds survive and are taken, the last stop list is read |
| domains_stop | the same without kills | a finding |
| selection | 1 crawl thread, 2 domains, 3 URLs that come as seeds, input and links, 1 change of stop list and seeds | nothing else lost, nothing doubled, quotas, order, numbers, no starvation (liveness) |
| url_output | 2 threads, a buffer of 11 cells, URLs of 1, 6, 9 and 10, reasons shorter, as long as and longer than the time, 2 descriptors, 1 samsara | which lines are whole, and where they go |
| page_output | 2 days of 2 hours of 4 minutes, intervals 2–4, gaps up to an hour, 1 reload | the file of the interval, pages resume (liveness) |
| recognizer | files of up to 10 lines, 2 domains, 1 line out of place | read and typed as written, the parser ends (liveness) |

Each module has a type invariant; of these only LevelPool's, which is not evident
(a count never goes below 0), is a property of a run.

Bounds. Two crawl threads suffice for every race between crawl threads here: each
shared part is an atomic object, and the properties compare one thread with the
others. Three are used where it is cheap. In dns_client a crawl thread
meets the select thread, which also clears the map; in selection one writer and the select thread meet in every step of
a drain, and two writers differ only in their order. All limits of the retry counts are 1, the least load_conf accepts:
each count then passes through below, at and above its limit. The queue of crawl_fetch is
smaller than the number of URLs so that pushes are refused; that of crawl_dns is
exactly as large as the bound on copies. Three eras contain two samsaras: the
second one meets a backup, and the lists swapped by the first. Three seconds let a file
change twice, before and after it was read. In selection the shares of two domains
round to 0, 1 and 2, so that both quotas bind and the least quota matters; MinQuota,
Slack, Reserve and MinRounds are scaled down with them. The lengths of url_output
put the reason's offset before, at and behind the end of the time, and let each print
once fit the buffer and once overrun it, a line of either kind filling it to the last cell. In page_output
an interval that divides the hour, one that does not, and one that is the hour
occur, and a gap long enough for the index to come round unseen. Ten lines hold two
blocks, of one domain or of two, with rules. Deadlock is checked
except where the system may stop: in the samsara runs (after a kill between the
last `mv` and `mkdir` the spider cannot come up again without the operator), in
selection (the select thread hangs), in url_output (a thread waits for a mutex
that was destroyed or initialised under its holder) and in recognizer (load_conf returned).

Fairness. A thread that can run does (weak fairness of each thread's steps). Fetches
and DNS queries end: the http library and select() have timeouts. The clock
advances. For `m_singleton_mutex` only *someone* is assumed to get a free mutex, as
pthread mutexes promise no more; therefore SomeoneAnswered speaks of some caller.
In Samsara strong fairness of Finish stands for what crawl_dns
checks: a URL does not go back to the queue for ever. A pause that is never lifted
is excluded by fairness. In Selection the select thread and a thread inside push_url
go on; in PageOutput the crawl threads come round to append, which they do at the
top of their loop whether or not there is work, and the clock advances; the thread
that loads the rule file runs.

## Findings

Each has a run in which TLC exhibits it; `PROJECT.json` quotes the lines.

1. next_round swaps cate.list and item.list (samsara_lists).
2. A samsara takes the shields off the domains of the stop list, for good unless the
   file is touched (domains_stop).

More observations, with no document to hold them against. They are behaviours of the
models, and the properties are worded around them:

- Crawl: a redirection to another site is fetched under the admission of the first
  one; a URL without address is queued *and* gone on with, so that copies multiply and
  DNS_FAIL may be reported for one while others go on; a URL to be tried again is
  lost when the queue is full, and so is one that is queued when a samsara ends; after two redirections (away and back) a fetch goes
  to the wrong address, which is why FetchesItsSite stops at the first one; links
  to a domain no seed or input list named are lost at the next selection, and links
  pushed between the copying and the clearing of their pool at once. NothingVanishes
  lists these ends by name (the definition's comment): it says that there are no others.
- Selection: what is pushed between Copy and ClearDrained is lost though its pool
  goes on knowing it; a held mutex, copied, hangs the select thread; left-overs of the other
  class than their pool's are lost; the buffer and left-overs of the last round of
  a samsara are selected again in the next one, unknown to the pools; for a
  priority domain the quota is twice that of its categories.
- Samsara: the queue cleared may still hold `min_select_threshold` URLs, and what is
  put back meanwhile; a kill between `mv input backup` and `mv next input` makes the
  next start truncate the lists of the round just completed, before it exits for
  want of input (backup keeps the older ones).
- UrlOutput: a reason longer than the time is cut off a line of fail.list together
  with its newline; two threads in append_error mix their lines; within destroy an
  append may reach a file that was given the closed descriptor; a line longer than
  `m_buf` is printed past its end.
- PageOutput: with an interval of an hour or more the page file never changes; a
  failed mkdir holds up all pages until the next day.
- DNS: the response code is not looked at (the byte tested is of QDCOUNT); a
  failed resolution is remembered like an answer.
- UrlRecognizer: a blank line or a header inside a section becomes a rule that finds
  every URL; without `<normalize>` or `<category>` the parser never ends; an
  unclosed bracket inside a section ends the process by an exception; normalize
  returns "" for a domain without `<normalize>` rules; a replacement of one
  character is lost.
- Domains: a seed file written in the second of the last one's change time is never read.

## Proofs

**LevelPoolProofs** proves, for any finite set of threads, any sites, limits ≥ 1
and intervals within the horizon (LevelPoolAssumption), that Spec implies TypeOK,
SlotsMatchCrawlers, NeverOverLimit and AdmissionsSpaced. TypeOK alone is not
inductive: a count stays a natural number only because each finish_crawl has its
admission. The inductive invariant IInv is TypeOK ∧ SlotsMatchCrawlers ∧
AgeIsQuiet, the last of which ties the pool's clock to the history variable. One lemma
per action shows that it is kept; what Begin and End do to the set of
crawlers, and its cardinality (FiniteSetTheorems), are lemmas of their own. The two action
properties follow from IInv, and from the lemma that only Begin(t, s) puts a
thread on s.

**DnsClientProofs** proves SingletonQuery, GivesUpOnlyAfterAttempts, AddressOfTheSite
and the refinement of DnsCache, for any threads, names, ports and attempts. `Control`
is the invariant of the control state: types, the one query at a time, the attempts
left of it, and NO_IP only when they have run out. `Right` is about the data: a reply
on its way to a port was made for a query of the socket that had it (`Pertinent`), so
what is read is an address of the site asked for. The step from a message to an
address is made by UdpDns's codec, recursive over bytes: AddressOfTheSite and the
refinement have it as their hypothesis MessagesAgree (server and client agree on single
messages), which TLC evaluates for the zone and the limits of dns_client
(ZoneAssumption in MCDnsClient). NO_IP is no address (NoIpAssumption).

**CrawlProofs** proves FetchesItsSite, QueueBounded, NothingVanishes, CopiesHalve,
RoomSuffices and Polite for any threads, sites, jobs, outcomes, capacity and counts. `Sound` is TypeOK, what the checks
a thread has passed say of its item's counts (`Counts`), and the address in `ip` being the
one of the site asked for (`Addressed`). `Traced` adds to NothingVanishes that the
buffer is empty while the pools are gone through: without it select_url could overwrite
what insert_url has not pushed.
Polite is the refinement of LevelPool with `Crawling` read off the program counters:
the actions that enter or leave the gate map to Begin and End, the others stutter.
CrawlNeverOverLimit then carries LevelPool's own theorems over by INSTANCE. The
marker NoItem is no item (NoItemAssumption). SelectedQueueBounded is the theorem about
the queue by itself, for every capacity.
CopiesHalve is about a sum over copies, each weighing 2^(dns_counts it has left). The
model counts it as the cardinality of a set, each copy having as many numbered parts as
it weighs, so that a step that moves, splits or ends a copy is a bijection or a subset of
parts and no induction over the queue is needed. The invariant `Few` has besides that a
job the select thread still has (`Held`) is in one of its lists only (but for
the pool just copied and not yet cleared) and has no parts yet (`HeldOnce`, `Fresh`), up to
the samsara's end: the push of a new copy then starts from
nothing. RoomSuffices follows: as every part is a part of a job that was seen and every
copy has a part, a queue with room for Whole copies of each such job is never full
when one is put back (`Roomy`). The powers of two enter as numbers of subsets, and the
sets of seeds and of the links of a page are finite (CrawlAssumption).

**SamsaraProofs** proves ACompleteListSurvives, AppendsReachNext and
HandedOverListsFrozen for any threads, capacity, threshold and eras. The first two are
not inductive: the invariant says where complete lists are at each step of the transfer
(`Complete`, `Staged`), that next is not the directory named input or backup and no
name is newer than the newest directory (`Apart`), and that what is open is under next
(`OpenOnNext`).

**UrlOutputProofs** proves the three invariants of UrlOutput, for any threads,
descriptors, number of samsaras, URLs, reasons and length of the buffer
(UrlOutputAssumption). FdIsTheLists needs that the lowest free descriptor is free. For
the lines the invariant says that an
undisturbed thread is alone inside, with the mutex in append (`Alone`), and what its
sprintfs have made of a blank buffer up to its program counter, all of which did fit
(`Printed`); that strlen finds an end needs the last cell to be a NUL until something
overruns it (`BufferEnds`). Lemmas
compute each buffer cell by cell, its strlen, and the prefixes and suffixes of the
line. That a non-empty set of naturals has a minimum comes from WellFoundedInduction.

**DomainsProofs** proves SeedsSurvive: between load_seed's reading and its unlink the
file is there, and is the one that was read (`ReadFileKept`). DomainsOnlyInputUnshields
bounds the finding of domains_stop: `Shielding`, that each domain of the list is known
and shielded, is kept by every step but load_input_urls. (With "each known domain is
shielded" this fails: a domain the samsara has forgotten comes back as a seed's,
unshielded.)

**PageOutputProofs** proves TypeOK and FileOfTheInterval for months, days, hours and
intervals of any length. append compares indices within the hour only, so the invariant
has to say when the open file was opened (`OpenedSince`): no longer ago than is
counted, at a time with the remembered index, and if that file is no longer open then
another index came between. `SameHour` is the arithmetic: two times with the
same index at most an hour less the interval apart are of one hour, with no other index
between. The clock's wrap at the end of the month is in IndexMonth and StayingFile.

**SelectionProofs** proves TypeOK and all six safety properties of Selection, for any
URLs, domains, finite set of crawl threads, finite seed file and list of categories, and
any percentages, quotas and thresholds (SelectionAssumption; NoJob is no job). Three
layers of lemmas carry it. *Positions*: `Ascending` lists a finite set of numbers by their
ranks, each once, so `At(v, P)` has exactly the elements of v at P, in order. *Counting*:
how often a job occurs in a concatenation, a reversal, a selection by positions or by type
is computed from its parts; lists that only exchange jobs are compared by that.
*Loops*: where the first loop stops one quota is used up or nothing is left, what the
second takes fits the other quota, and if a domain has only its own two types both
together are the oldest of each. With SelectDomainLists, the one lemma that opens
SelectDomain, WithinQuota follows from types alone.
The others need the invariant of a round, RoundInv. `OwnJobs`: a domain's list holds
only its own jobs (else types of the other class could stand in OldestFirst's list).
`MapServed`: what is left in the lists when all are served is of shielded domains (else
Judge could lose others). `CopiedWithin`: the queue grows behind what was copied (else a
push in mid-passage could change the count). `NumsReset`: nothing is noted yet for the
domains to come, and `carried` is the buffer's size when the round began (else
NumbersAddUp is not kept). For the three properties about copies of a job its places are
Queued, Held, Mapped and Listed; one lemma per action says how their sum changes, and
CopiesNext puts them together: it grows only when the job becomes known, and falls to 0
only in the ways NothingElseLost names.

The type invariants used are proved in the same modules. The inductive invariants were
given to TLC on the instances of the runs before they were proved.

Only model-checked:
- liveness (SiteReopens, SomeoneAnswered, CrawlDrains, SamsaraEnds, SeedsTaken,
  LastStopListRead, NoneWaitsForEver, PagesResume, LoadEnds), out of the prover's reach;
- what the recursive definitions of UdpDns (MessagesAgree) and UrlRecognizer
  (ReadAsWritten, TypedAsWritten) compute: induction over data.

Every other property of a passing run is a theorem.

## Plan

In this order, the most important behaviour first; all are done.

1. LevelPool and its proofs. 2. SelectedQueue and its proof. 3. DnsCache, DnsClient,
   Crawl. 4. Samsara. 5. UrlPool and Selection. 6. UrlOutput and PageOutput.
   7. Domains. 8. UdpDns and UrlRecognizer.
9. Proofs about DnsClient, Crawl, Samsara, UrlOutput, Domains and PageOutput.
10. Proofs about the copies of a job in Crawl, and about Selection with its pools.

## Not modelled

What is not in the repository: the http client, the extractor and recogniser, the
URL class, ncMutex and the logger; Crawl takes their results from small sets. Rule
and dictionary files are their data. The UTF-8 conversion, a call into a
library: Crawl has its success and failure. load_conf's tests for missing items.
The done counters and pool sizes of the statistics, which are written to a file
and read by nobody, and their data race. What a racing push does to the iterator
of select_url's passage (undefined in C++): the model lets the passage see the
push or not. Threads left waiting on a futex by the reinitialisation of a mutex.
filter_headtail_blank on an empty line, which looks for the end of the text before
the beginning of the buffer. Logging and the wording of messages. Memory (freeing
of buffers). `query_site_ip`, `avail_count`, `insert_level_info`, `pop_url`,
`load_urls`, `CPageOutput::destroy`, and the entry points of `CUdpDns` other than
`gethostipbyname_r_o`, which the spider never calls.
