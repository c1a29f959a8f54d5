# rtsp2sip: verification project

`rtsp2sip` makes an IP camera callable by telephone. It registers with a SIP
server, answers the calls that come in for a configured number, pulls the RTSP
stream of the camera that belongs to the number, and sends the stream to the
caller as RTP. This directory holds TLA+ models of the program, what TLC checks
about them, and what TLAPS proves about them.

All paths below are relative to the repository root. `eXosip` is
`3rd/libexosip2-5.3.0`, `osip` is `3rd/libosip2-5.3.1`; both are vendored sources
that are compiled into the program. In `PROJECT.json` the root is called `src/`, so
that `src/main.cpp` of the repository is `src/src/main.cpp` there.

## 1. The system

### Components, their state and operations

| component | source | state | operations |
|---|---|---|---|
| supervisor | `src/main.cpp` | `static pid`, SIGINT disposition of two processes | fork, wait, restart, two signal handlers |
| event loop | `src/SipClient.cpp` | `g_sessionMap`, `m_running`, `m_regid` | `ProcessEvent`, one branch per event; `StartStack`, `registerUa` |
| call session | `src/CallSession.cpp` | ports, payload types, remote and local SDP of one call | `Init`, `GetLocalSdp`, `Start`, `Stop` |
| media pool | `src/CallSession.cpp` | `s_proxyMap`: number -> RTSP player, one delayed reaper per player | insert in `Init`, erase in the reaper |
| SDP parser | osip `sdp_message.c` | `sdp_message_t` | `sdp_message_parse`, `sdp_message_to_str` |
| eXosip calls | `udp.c`, `eXcall_api.c`, `jcallback.c`, `eXosip.c` | `j_calls`: call, its number, dialog with `remote_cseq` and transactions, last 200 with its resend counter | requests from the wire, the `eXosip_call_*` API, release of ended calls |
| eXosip events | `jevents.c`, `eXconf.c`, `jpipe.c` | the queue `j_events`, two pipes | report, wait; `eXosip_execute` |
| osip transactions | `ist_fsm.c`, `nict_fsm.c`, `nist_fsm.c`, `osip.c`, ... | state, fifo, timers and last response of each transaction | receive, send, timers |
| registration | `eXregister_api.c`, `eXosip.c`, `jcallback.c` | `j_reg`: last transaction, period, retries, step | send, retry, refresh |
| ZLMediaKit | submodule, not in the repository | sources, players, RTP senders, pollers | external |

### Threads

* The **supervisor** is a process of its own; the rest runs in the worker it forks.
* The **main thread** of the worker starts the stack, registers, then waits on a
  semaphore for SIGINT.
* The **stack thread** of eXosip loops in `eXosip_execute`: it sleeps on its socket and
  a pipe, reads a message, runs the transactions, and releases what has ended, under
  the eXosip lock.
* The **event thread** runs `ProcessEvent`. It takes one event at a time and handles
  it to its end; when there was none for 10 ms it runs `eXosip_automatic_action`.
  It calls the `eXosip_call_*` API **without** the lock. A call's `GetLocalSdp`
  blocks it for up to 10 s.
* The **pollers** of ZLToolKit run the players, the reapers and the task
  `GetLocalSdp` waits for.

### How they interact

    caller --UDP--> stack thread --j_events--> event thread --> CallSession
       ^               |    ^                      |               |
       |               |    +- fifos and a pipe ---+               | s_proxyMap, delayed tasks
       +---- 100/200/487/BYE                                       v
       +<---------------------------- RTP senders --------- ZLMediaKit <--RTSP-- camera

The stack reports events about a call *after* the fact, the application answers into
the fifo of a transaction that may have ended meanwhile; the media of all calls to a
number hang on one player, which is destroyed by erasing its entry from
`s_proxyMap`.

### What is hard

`PROJECT.json` lists the hazards one by one with their lines. In short: unlocked API
calls against the stack thread; the order in which ACK, CANCEL and CLOSED reach the
application; a 200 that is resent from one thread and acknowledged on another;
requests within a dialog that overtake each other or come again; sends that fail half
way; wake-ups between two threads through pipes that fill up; one pool of players
shared by all calls and reaped from other threads; ports that are handed out twice; a
task that refers to a stack frame; an offer that one half of the code parses and the
other searches as a text; scratch variables that live from track to track; timers of
two transactions that must fit each other; signals around `fork`.

### What makes each component correct

* supervisor: one worker at a time, restarted whatever ends it; a SIGINT ends both.
* event loop with eXosip calls: every INVITE is answered or given up; a stored session
  is always dropped again; an answered caller has a session; media only for a session;
  an unacknowledged 200 ends the call; requests of a dialog are reported once and in
  order, answered once and in the end; a BYE releases everything.
* transactions without INVITE: together one question and one answer.
* events and jobs: nobody sleeps on work.
* media pool: no camera connection that nothing will ever look at again; no sender
  without a call; nobody's media stopped by another call.
* SDP: the parser takes what follows the grammar and loses nothing; what was offered
  is answered, under the payload type of the offer; the wait ends, in time, and with a
  complete SDP if the camera delivers one.
* registration: it is refreshed before the registrar drops it, if its period leaves a
  reserve for that; failures are retried, with pauses; the contact follows the address the
  registrar sees; once the registrar is up for good, the client is registered for good, or
  time and again if its period is short.

## 2. Modules

| module | models | run with | proved in |
|---|---|---|---|
| `Daemon` | supervisor, the worker's `main` | `Daemon.cfg` | `DaemonProofs` |
| `CallControl` | event loop, eXosip calls, INVITE transaction, event queue | `CallControlMC`: `CallControl.cfg`, `CallDropped.cfg` | `CallControlProofs` |
| `InDialog` | a call that is up: requests in its dialog, their answers, release | `InDialog.cfg` | `InDialogProofs` |
| `CallIds` | how calls are numbered by two threads | `CallIds.cfg` | - |
| `NonInvite` | client and server transaction without INVITE, timers, network | `Exchange.cfg` | `NonInviteProofs` |
| `Exchange` | abstract: what such a pair of transactions promises | (property of the run of `NonInvite`) | |
| `Wakeup` | how stack thread and event thread sleep and wake each other | `Wakeup.cfg` | `WakeupProofs` |
| `ProxyPool` | media pool, `Init`/`Start`/`Stop`, reapers | `ProxyPool.cfg` | `CallSessionProofs` |
| `SdpParse` | osip's SDP parser and printer | in `OfferAnswer` | `OfferAnswerProofs` |
| `LocalSdp` | `genSdp` | in `OfferAnswer` | `OfferAnswerProofs` |
| `OfferAnswer` | the body of an INVITE through `SdpParse`, `Init`, `LocalSdp` | `OfferAnswerMC` with `OfferAnswer.cfg` | `OfferAnswerProofs` |
| `SdpWait` | the polling task and the semaphore of `GetLocalSdp` | `SdpWait.cfg` | `CallSessionProofs` |
| `Registration` | `registerUa`, the REGISTER transaction, `eXosip_automatic_action` | `Registration.cfg`, `RegistrationRace.cfg` | `RegistrationProofs` |

`CallControl` abstracts what the other modules of a call detail: its `SessionMade` is
`Init` (in `ProxyPool` and `OfferAnswer`) followed by `GetLocalSdp` (in `SdpWait` and
`LocalSdp`), its `media` is the set of calls that have senders in `ProxyPool`, and
where it ends, with the ACK, `InDialog` takes the call over. `ProxyPool` in turn
abstracts the order of events: its `Start` and `Stop` come in any order a stored
session can see. `CallControl`, `InDialog` and `Registration` take for granted that
what is put into a fifo or a queue is looked at, which is `Wakeup`, and `InDialog` that
a server transaction that ends by its timer outlives the copies of its request, which
is `NonInvite`.

Definitions with the comment "mistake:" stand before the definition they would be a bug
of; the models do not use them, the `mutants` of `PROJECT.json` put them in its place.

### Daemon

`pc` is where the supervisor is in `startDaemon`; `pid` is the static variable, **one
copy per process**, because `fork` copies it (0 in a new worker). `handler` is the
disposition of SIGINT, also inherited: the second worker starts with the *supervisor's*
handler until `main` installs its own. A signal is pending for a process, and delivered
before that process takes another step. `Interrupt` is a SIGINT from outside to one
process or to the group (Ctrl-C); `KillTargets` is what `kill(pid, SIGINT)` reaches,
with 0 and -1 as targets. A worker whose `StartStack` failed is "deaf": it waits like
any other.

### CallControl

One element of `Call` is one INVITE with its transaction, call, dialog and session. The
transaction is `ist`, `fifo`, `last`; the dialog `dialog`, `d200Ok`, `count`;
`queue` is `j_events`; `app` is the program counter of the event thread, `map` is
`g_sessionMap`. Every action under the eXosip lock is one step (`app.at = "lock"`
excludes the stack thread); the unlocked `eXosip_call_send_answer` is cut into the
check of the transaction (`Check200`) and the write of dialog and fifo (`Add200`), and
`eXosip_call_terminate` likewise (`Terminate`, `Add603`).

The network is UDP. `sent` records what went out, and an ACK, BYE or a repeated INVITE
may arrive whenever its cause is in `sent`: lost, repeated and late messages need no
variable of their own. Every send may fail (the branches of `RecvInvite`,
`RecvInviteAgain`, `IstSends200`, `IstSendsFailure`).

Timing assumptions, each at its action: the fifo of a transaction is run before a timer
of seconds strikes (`IstTimeout`, `TimerPasses`); the application is not stopped between
two lines of `eXosip_call_send_answer` for the seconds a release takes (`ReleaseCall`);
the NIST of a CANCEL is run in the same `eXosip_execute` that received it. Left out: a
CANCEL whose own 200 cannot be sent, and calls made by the program (there are none).

### InDialog

A request is named by its CSeq; `method` is what the caller has sent so far. A request
that no transaction is known for makes one (`cseq`, `state`), and `owner` is the list of
eXosip's that holds it: `dialog` (`d_inc_trs`), `stack` (`j_transactions`), `freed`, or
`nobody`. The actions named `Rcv...` are the branches of `_eXosip_process_newrequest`: an
old CSeq is refused (`RcvOld`), an INVITE before the end of the last one too
(`RcvInviteTooSoon`), both by a default answer; a re-INVITE, a message and a BYE are
reported; after a BYE there is no dialog any more and requests are answered 481, or taken
for ones outside of any call. `remote` is `remote_cseq`. A request with the CSeq of the
last one is dropped in the code and no action here. What `ProcessEvent` does with an event
is `Take...`; `Answer` is the unlocked `eXosip_call_build_answer` and
`eXosip_call_send_answer`. `aged` are the re-INVITEs that are 180 s old, which no longer
keep a call from being released. REFER, SUBSCRIBE, NOTIFY and UPDATE are left out.

### CallIds

`_eXosip_update` cut at each read and write of `c_id` and of the static counter, run by the
stack thread for an INVITE and a BYE and by the event thread, without the lock, after an
answer. Left out: the numbers of dialogs (from the same counter), its wrap at INT_MAX, and
the release of calls.

### NonInvite and Exchange

Both sides of an OPTIONS, or of any request but INVITE: NICT with timers E, F and K, NIST
with timer J, and the application that answers. `wire[m]` is for how long message `m` may
still arrive: until then any number of times, or never. Sends may fail. Time is in parts of
T1; what is due happens before the clock goes on. The program itself only has the server's
side for requests from outside and the client's for its REGISTER.

`Exchange` is what the two promise their users: the client learns one outcome, which is an
answer that was given or a failure; the server is asked once, and again only if its
transaction was lost to an answer that could not be sent. `NonInvite` has it as
`E == INSTANCE Exchange WITH client <- Client, server <- user, given <- given`, where
`Client` is "idle", "waiting" or the outcome, read off `nict` and `outcome`.

### Wakeup

The stack thread in `eXosip_execute` (sleep in `epoll_wait`, read the pipe, receive under
the lock, execute the transactions one after the other under the lock) and the event thread
in `ProcessEvent` and `eXosip_event_wait`. `pipe` and `ctl` are the bytes in the two pipes,
which hold `MaxPipe` and are read `MaxRead` at a time. A job or an event is added in one
step and its byte is written in a later one (`owedPipe`, `owedCtl`). What a job is about does
not matter here. That a sleep or a wait ends by the clock is an action without fairness.

### ProxyPool

A session is where the SIP thread is with one call: `insert` and `arm` are the two
points inside `Init` after which another thread's step can matter, `wait` is
`GetLocalSdp`, `mapped` is stored in `g_sessionMap`. `player[s]` is the `PlayerProxy`
that session `s` made; the reaper of a player is `armed` (grace period), `due` (will run
again), `erasing` (between the read of the reader count and the erase) or `stopped`.
The reaper knows only the number, so it may erase a *later* player; `Destroy` is the
release of the last reference, and the senders of a source go with it. A port is free
again as soon as `allocUdpPort` has closed it.

### SdpParse

A text is the sequence of its lines; a line has a letter and may be bad for the parser of
that letter. `step` is the call `sdp_message_parse` makes next; `Calls` has for each of its
calls which comes after a line that matched and which after one that is another's, which is
the whole control of the function. `Parse` is what all line parsers have in common: look for
the next `=` (lines without one are passed over), compare the letter, read or refuse the
value. `sdp` is `sdp_message_t`: the session's fields, then those of each media.
`to_str` is `sdp_message_to_str`, which the program itself does not call; it serves to say
that nothing is lost. Left out: allocations that fail, and texts with LF or CR alone as line
ends.

What the parser should take is stated without it, over the places of the text: `Extent` is
what is in front of the end of the SDP, `Proper` the places there of lines with a letter, and
`Grammatical` says of each of them that it is allowed in its section and follows what is
before it there (`Order`, `Repeats`). `LinesAt(Proper)` are these lines in their order, which
is what the printer has to give back.

### OfferAnswer and LocalSdp

`OfferAnswer` instantiates `SdpParse` with `text <- offer`, the body of the INVITE, and
extends `LocalSdp`: `Parses` runs the parser to its end, then `InitRefuses`, `InitThrows` or
`InitGoesOn` decide by the parsed SDP (the two `eXosip_get_..._media`, the ports, the
connection), and `GenSdp` is a step of `LocalSdp`, which searches the *text*. `InitThrows` is
the end of the worker: `stoi` on a port that is no number, or the null `c_connection` of an
offer that has its c= lines within its sections.

In `LocalSdp` a line has what `getSdpLine` reads of it: what it is, the codecs whose names
occur anywhere in its text (`names`), and its payload type. A line of any kind may have them
(`s=opus`, `a=label:opus`, `a=fmtp:9 opus`), and one name may be part of another (PCMA in
`a=rtpmap:105 PCMA-WB`). `found` and `dir` are the variables
declared *outside* the loop over the tracks (pt, rtpmapLine, fmtpLine, the two directions),
which is what the module is about; `Garbage` is what the uninitialised `int pt` may hold.
It is the one wildcard: whatever is in `Garbage` may be looked for as `fmtp:<pt>`.
The loop of `getSdpLine` over the lines is given by what it leaves behind: the last line
that names the codec, whatever it is about (`Naming`, `LastOf`), the payload type of the last
of them that is an rtpmap line, or what pt held before if `sscanf` fits none (`Mapping`,
`Known`), and the last fmtp line that fits the payload type known when the loop is at it
(`Fitting`). The regular expressions for the directions are `DirectionBelow`. Two things are
only looked for in the lines that are about them: a direction, and "fmtp:" with its number,
which for `getSdpLine` are text anywhere, too.
`CameraAssumption`: ZLMediaKit's SDP of a track states no direction.

### SdpWait

`task` is where one run of the polling task is; between any two of its reads the player
may change the source and the clock may pass `waitEnd`. `caller` is the event thread in
`sem.wait()`. A source that goes away and comes back is another source (`src` is the
one this run holds by `shared_ptr`).

### Registration

`reg` is the part of `eXosip_reg_t` that steers the registration, with `deletion` the
time since the last deletion plus 1 (0: none). `tr`, `last`, `age` and `request` are
`r_last_tr`: its state, `last_response`, the time since `birth_time` and
`orig_request`. `tr` is `answered` between the two steps in which a response is seen:
`last_response` is set, the callback and the end of the transaction are still to come.
It is `lost` when `r_last_tr` has left the registration and the next request could not
be built (a 423 without Min-Expires). The event thread takes no lock, so one pass of
`eXosip_automatic_action` over the registration is cut where the stack thread can come
between: `Decide` (read, choose, announce the step), `Attempt` or `AttemptRefused` (build
and send), `Conclude` (count the retry, put the step back) and `Forget` (the last
statement of the pass).

Time: `Tick` waits for what the program does at once. The event thread may be held up by
a call, for which `MaxLate` stands. The registrar and the network are external: while
`up`, a request is answered before time goes on; else it may be answered, refused,
lost, or its sending may fail.

`Planned(period)` is the age behind which a pass refreshes a registration of this period:
`RefreshAfter`, the tenth or the margin, whichever comes first. `RefreshedBy(period)` is the
age by which it has done so. The tenth is the constant `Tenth`, because the times of a run
are scaled.

Assumptions and what is left out: the registrar takes a contact for as long as it
grants, as in RFC 3261, and lists all contacts of the client in a response; it may grant any
time. 407 goes the way of 401, as in `eXosip.c:861`; 606 is retried, too. Left out:

* Retry-After: a 503 of the kind that fails over (`eXosip.c:1587-1618`) may set
  `r_retry_after_delay`, and passes skip the registration until then (`:842-846`).
* The STUN answers to the keep-alive packets (`eXtl_udp.c:1309-1373`, `:1446-1453`), which may
  also tell a new address and mark the registration as expired. In the model the address is
  learnt from responses to REGISTER only.
* More than one registration, and the events REGISTRATION_SUCCESS and
  REGISTRATION_FAILURE, which are only logged.

## 3. Runs

| run | what it shows | bounds |
|---|---|---|
| `daemon` | one worker at a time, restarted after anything; only SIGINT ends the supervisor; a SIGINT during `waitpid` ends both | 1 crash, 2 SIGINTs, 1 failed fork |
| `calls` | stored sessions have an end, answered callers a session, media a session; two finals need a CANCEL; every INVITE answered, every 200 acknowledged or dropped, every ended call cleared | 1 full call beside a second that keeps the application busy; 200 resent once, 1 ACK |
| `call_dropped` (violation) | a 200 given up does not drop a call whose transaction ended at its 100 | 1 call |
| `dialog` | requests reported once and in order, answered once and in the end; a session lasts as its dialog; a BYE releases everything | 3 requests, 3 transactions, of INVITE, BYE, OPTIONS |
| `call_ids` (violation) | a call may get two numbers, or two calls one | 2 calls |
| `exchange` | the two transactions implement `Exchange`; one copy on the way; no copy reaches a server that has forgotten it | T1 = 2, T2 = 8, T4 = 10, F = J = 32, a datagram up to 1 late; 2 answers |
| `wakeup` | neither thread sleeps on work; jobs are executed and events taken without the help of a clock | 2 transactions, pipes of 3 bytes read 2 at a time, 2 datagrams, 2 jobs, 2 events |
| `pool` | no unwatched pull, no sender without a call, no call loses its media to another, idle cameras are let go | 2 calls, 2 numbers (one without a camera), 2 ports |
| `offer_answer` | the parser takes what follows the grammar and loses nothing; what is answered was offered | the texts, offers and cameras of `OfferAnswerMC`, 4 garbage values |
| `sdp_wait` | the task ends with its caller, in time, with a complete SDP | deadline of 3 ticks, 2 appearances of the source |
| `registration` | refreshed in time, from an honest period; failures are spaced; once the registrar stays up: registered at the address it sees, time and again, and for good while the period is long | a change of address; 12 asked for, 13 the least the registrar takes, 8 or 12 granted; 1 retry; the event thread up to 1 late |
| `registration_race` (violation) | the old contact is not deleted when the deletion is announced while a response is being handled | the real times, a change of address |

Every property has a mutant: a plausible bug put into one definition, which the run then
finds. The type invariants are proved (section 4) and not run, but for `CallTypeOK` of
`OfferAnswer`, which is both.

Why the bounds are enough:

* `Daemon`: the second worker differs from the first by the handler it inherits; a third
  inherits the same.
* `MaxCount` is 9 in the code. The loop treats every count below it alike, so 1 has all
  cases: a resending, the last one, the giving up. The repeated ACK does what the first did
  once the 200 is acknowledged; with two of them the graph for liveness is too large, and
  the proofs are for any number.
* The second call in `calls` is restricted (`SpecWithOther`: its caller does not cancel, and
  what is sent to it can be sent) to what delays the application, because the graph for
  liveness is kept whole. Calls share nothing but the event thread and the queue; the
  safety theorems are for any number of unrestricted calls.
* Three requests are a re-INVITE that stays unanswered, something that overtakes or is
  refused, and the BYE. `InDialogProofs` has any number. INFO goes the way of OPTIONS
  while there is a dialog and the way of BYE after it, and is left to the proofs.
* `Exchange.cfg`: T2 / T1 = 4 where the code has 8, F / T1 = 16 where it has 64: two
  doublings of timer E and several resendings at T2. The proofs are for any times.
* `Wakeup`: with pipes of 3 bytes both the full pipe and the one not emptied by one read
  occur; two transactions have one that a pass has been at and one it comes to.
* Two calls to one number give a replaced entry with an old reaper; with two ports both
  distinct and equal ones occur. A third call to the same number adds a second old
  reaper; the theorems of `CallSessionProofs` are for any number of calls.
* Texts for the parser: one with every line of the grammar, repeated where it may be and
  with three sections, and a short one with the s before the o; each with any line spoilt,
  left out, swapped with another, and any letter, a line without `=` or an empty line
  strayed in at any place; of the short one also any subset of lines and any two changes of
  which one is a line left out. That exercises each entry of `Calls`, in both directions.
* Offers hold a codec without the camera's, one with several payload types, an fmtp line
  before its rtpmap line, each direction and none, the media in either order, and bodies
  that go on behind the SDP. In `ByTheWay` the names of codecs occur in s=, a=label and fmtp
  lines and within longer names, with and without an rtpmap line of the codec, before and
  behind it. Two tracks are enough to see what the first leaves behind for
  the second. The garbage values contain one that occurs in no SDP, and payload types that
  do.
* Two appearances of the source in `SdpWait` are the source a run holds and the one that
  replaced it.
* The times of a registration are scaled (`Tenth` is 2 in the run: half a period). What is
  kept: the margin and the slack are the smallest, then timer F and the guard of the
  deletion, then RetryAfter; RetryAfter < RefreshAfter < Expire; the nonce outlives
  RetryAfter. Of the two grants the one of 8 is a short one: the tenth decides when it is
  refreshed, its reserve just covers the slack and the lateness of the event thread, and is
  no more than a wait for RetryAfter costs, as the code's 100 s at most are less than 120. The
  one of 12 is refreshed after RefreshAfter, with a reserve that does outlast such a wait; it
  is less than the 13 asked for by the slack, and does not shorten the period. One retry is
  the first and the last one; the proofs have any number. One change of address is a
  deletion and a new contact; a second one repeats it. The first REGISTER is refused with
  423. With nonces that do not outlive RetryAfter a challenge that meets an exhausted retry
  count is answered too late each time, and `StaysRegistered` does not hold.

`CHECK_DEADLOCK FALSE` stands where the system may really stop: a call that is over, a
supervisor that was stopped, an SDP that is made or refused, a pool whose calls are done, a
question that is answered, and a registration that was lost (423 without Min-Expires). That
it does not stop *earlier* is what the liveness properties are for. `Wakeup` and `CallIds`
are checked for deadlock.

### Fairness

* `Daemon`: processes are scheduled and signals delivered. `fork` succeeds in the end
  because its failures are bounded.
* `CallControl`: weak fairness of the event thread as a whole and, per call, of what the
  stack thread does unprompted (run the fifo, fire timers, release). `eXosip_execute` goes
  over all transactions and calls in each round, so none is passed over. Nothing is
  assumed of the caller, and the ring timeout of 180 s is never relied on.
* `InDialog`: weak fairness of what the stack does with each transaction, of the release of
  the call, and of the event thread. Nothing of the caller or of what arrives. That a
  re-INVITE gets 180 s old (`Ages`) is among what the stack does: time passes.
* `NonInvite`: each side executes what is due (weak). The clock goes on (strong, since
  messages that arrive again and again switch its guard on and off). Nothing is assumed of
  the network or of the answering application.
* `Wakeup`: both threads run (weak) and get the lock when it is free time and again
  (strong). Both let go of it often: the stack thread before each sleep, the application
  after each job. No fairness for the ends of sleeps by the clock, nor for arrivals.
* `ProxyPool`: delayed tasks run, and `Init` comes to its end. Nothing about cameras.
* `SdpWait`: time passes, the poller runs the task, the event thread wakes up. Nothing
  about the camera.
* `Registration`: the main thread, the event thread and the stack thread go on, and time
  does. The registrar answers while it is up; nothing is said of its coming up, or of the
  address changing.

## 4. Proofs

The theorems hold for every value of the constants that satisfies the modules'
assumptions. Each module above with a proofs module has its type invariant proved:
`DaemonTypeOK`, `CallTypeOK`, `DialogTypeOK`, `NonInviteTypeOK`, `WakeupTypeOK`,
`PoolTypeOK`, `WaitTypes`, `CallTypes`, `RegistrationTypeOK`. Beyond the types:

* `NeverTwoWorkers` (`Safety => []OneWorker`): that there is one worker says nothing of
  which. `DaemonInv` adds that workers are forked in the order of their pids, that only the
  *last* one can be alive, and what the supervisor knows at each point: none is alive where
  it is about to fork, and the one it waits for is the last. `SupervisorGoesOn` is
  `OnlySigintEndsSupervisor`.
* `NoSessionLeftBehind` (`Safety => []SessionsHaveEnd`). `SessionsHaveEnd` is not
  inductive: it says nothing of the time *before* the session is stored, when the end of
  the call may already be reported. `CallInv` adds: while the application is still to
  decide about a call, its INVITE has not been overtaken by its end, that is, no event of a
  call stands before the call's INVITE in the queue (`InviteFirst`, `InviteOnce`), and a
  call with an undecided application either rings or has its end on the way
  (`RingingOrEnding`). An action of the stack thread only appends to the queue and keeps
  "rings or ends" (`SoundKeeps`); the actions of the event thread remove the first event,
  and then `InviteFirst` gives that what is removed with the session was meant for it.
* `AnsweredHaveSession`, `MediaHaveSession`, `TwoFinalsNeedCancel`: the other invariants of
  `calls`, all from `AnswerInv`. Without a CANCEL a call is answered or refused, never
  both, in the fifo or on the wire (`Uncancelled`); a call that can still be answered has no
  answer yet; and the ACK of a failure reaches the application behind the CLOSED of that
  failure (`CloseBeforeAck`), so that it starts no media.
* `RequestsReportedOnceInOrder`, `SessionEndsWithCause`, `NeverAnsweredTwice` (`InDialog`).
  `DialogInv` adds that no request was reported above `remote_cseq`, and that every event
  that ends the session waits in the queue for a BYE or a CANCEL that was accepted.
* `OneCopy` (`Safety => OneCopyOnTheWay`): timer E is never shorter than what is left of the
  copy on the wire. `LearntWasGiven`: every response on its way, kept or learnt is one that
  was given. `ServerOutlives` (`Safety => []ServerOutlivesCopies`): `OutliveInv` follows
  what timer F will read at the next resending. Before a provisional response that is a
  multiple of T1, so a copy that is still sent is gone before F, and J is never behind F. A provisional response starts timer E anew
  for T2 at any time, which breaks the multiple; but none comes later than `Delay` after the
  final answer, with which J starts, and T2 is more than twice `Delay`. The ratios of the
  timers are `RatioAssumption`. `SimulatesExchange`: `Init` implies `E!Init` and every step
  is one of `Exchange` or a stutter; the step to argue is a request that makes a server
  transaction, which by `ServerOutlives` is never one that was answered before.
* `NoJobSleptOn`, `NoEventMissed` (`Safety => []JobsAwaken`, `[]EventsAwaken`): `WakeupInv`
  covers a job also while the stack thread is awake: a pass has yet to come to its
  transaction, or a byte is in the pipe or about to be written. What was found readable
  stays so, as only the stack thread reads.
* `PullsWatched` (`Spec => []EveryPullWatched`): needs that an entry of `s_proxyMap` is
  under its own number and that no player is older than its session (`PullInv`).
  `MediaOwned` (`Spec => []SendersOwned`): inductive relative to `TypeOK`; `Stop` finds the
  senders by number and port, so the case to argue is a player that was replaced since
  `Start`: its senders went with it. `LossIsCaused` (`Spec => MediaLostOnlyWithCause`)
  follows step by step: a sender is only taken away by the `Stop` of a session with its
  number and port, or with its player (`LossHasCause`).
* `EveryOfferIsAnswered`, `DirectionIsMirrored`, `AnswersAsOffered` (`OfferAnswerProofs`,
  all from `CallInv`), for any offers and cameras. What a search of `getSdpLine` leaves in
  the scratch variables is `SearchOK`: the payload type of an rtpmap line that names the codec
  *or* what was there before, and a line that names it *or* what was there before. So
  `FoundInv`: a line found is one of the offer or of the SDP of a track `genSdp` is past; and if an
  rtpmap line of the offer names the codec, neither the line nor the payload type is a
  leftover (`RemoteOK`).
  `StatedIsFound` is the regular expression: the first direction below the first m= line of
  a media is in its section, if the section states one. That the line answered is among
  those the *parser* has kept needs an invariant of the parser: every attribute of the body
  is in the structure or still ahead (`NothingLost`), kept by what all line parsers have in
  common (`ParseKeeps`), and a parser that has come to the end has at most one empty line
  ahead unless the body goes on.
* `AcceptsTheGrammar` (`Spec => []AcceptsGrammar`), for texts of any length. `GrammarInv`
  has three parts. What was read is the beginning of an SDP (`BehindInv`); the call that is
  made fits what was read (`StepInv`: `Upto` is the last place in the order a line of the
  section can have by then); and a line the parser is past, or has no more call for, does
  not follow what was read (`LateInv`, with the letters in `Passed`). By the first part what
  is accepted is grammatical; by the last what is refused is not, as the line that no call
  took is in nobody's place. The next line with a letter is the *least* place ahead that has
  one (`LeastOf`), which is how a search through a text of any length is dealt with without
  induction over it.
* `PrintsTheText` (`Spec => []PrintsWhatWasParsed`): `PrintInv` says at every call that the
  message, printed, has the lines read so far, in their order, and how the message begins
  while an s can still come before an o. `FieldInv`, that what is kept of the section was
  read in it, and `GrammarInv` give that the line taken has room in its field (`Room`) and
  that nothing behind this field in the printer's order is filled yet (`RoomFor`), so that
  it is printed last (`SessionShows`, `MediaShows`, `NextMediaShows`); the one line that is
  not is an o behind an s (`NamedShows`). That `FlattenSeq`, a fold, appends what is
  appended to its last part that is not empty (`FlatPut`) is argued from the function it is
  computed with (`Joins`), at the least index where it would not.
* `TaskEndsWithWait` (`Safety => []NoRunAfterReturn`): from `Over`, the semaphore is posted
  only when the task has just its `return` left. `CompleteInTime`
  (`Safety => []CompleteOrLate`): from `Ensured`, what each point of a run of the task has
  seen; it survives because a track never loses its readiness and the source of the run is
  held.
* `RegistrationTypeOK` has one part that is more than a type: `r_retry` never exceeds its
  limit. It is tested in one step, used in the next and counted in a third, with the other
  thread setting it back in between; `RetryLeft` says that a retry decided upon is still to
  be had when it is counted.
* `RestDoesNotLapse` (`Safety => []NoIdleLapse`) and `PeriodIsHonest`
  (`Safety => []PeriodHonest`), for any grants: `TimesInv` follows the times of every
  contact. A reply on the wire tells no more than the contacts are bound for, counted from
  when its request was sent, so the period exceeds what is left of some contact and the age
  by no more than the slack (`HonestInv`); a transaction under way is not older than timer F
  (`AgeInv`), and one that rests not older than the age its period plans for the refresh, or
  timer F, and the lateness of the event thread (`RestInv`). Together: if the period exceeds
  that age by more than the slack, the binding is still there.
* `LongTimesDoNotLapse`: if all grants and `Expire` exceed RefreshAfter and the lateness
  (`LongTimes`, a condition of the theorem), a registration that rests does not end, also
  while contacts of other addresses are bound, which `NoIdleLapse` excepts because they may
  lengthen the period. The binding is followed from the grant (`BoundInv`), and what is asked
  for never falls (`AskedInv`).
* `RetriesAreSpaced` (`Safety => RetriesSpaced`): the event thread decides in one step and
  sends in another, without the lock. `PassInv` says what is still true then: a pass that is
  about to send for the age alone has an age above RetryAfter, unless a 2xx came in between,
  the only thing that changes the period.

The assumptions on the times are that timer F and the longest `r_retryfailover` are not
longer than RetryAfter (32 and 60 against 120 s). Nothing is assumed of the grants and of
`sip.expiry`: where the properties depend on them, they name the case (`Planned`,
`RefreshedBy`), and section 5 tells what becomes of the others.

Model-checked only: everything under fairness (liveness, and the fairness of
`ImplementsExchange`), which is out of the prover's reach; and `CallIds`, which is there for
its violation. Every safety invariant of the passing runs is stated by a theorem.

## 5. Where the code and its words disagree

With a run that shows it:

1. `DroppedWithoutAck` (`eXcall_api.c:1094`, run `call_dropped`). "no ACK received during
   20s [dropping call]" does not drop a call whose INVITE transaction ended at its 100.
   `AnswerConfirmedOrDropped` is the statement with this case excepted, and holds.
2. `DeletedFirst` (`eXosip.c:870`, run `registration_race`). Behind a NAT the wrong contact
   is to be deleted before the right one is registered ("proceed with deletion and
   re-registration of new contact", `jcallback.c:110`). The event thread announces the
   deletion before it knows that it can send it; when the response of an ordinary REGISTER
   is just being handled, that response passes for the deletion's and the old contact
   stays. The client still ends up registered (`StaysRegistered`), but its old contact
   is then listed in later responses and may lengthen the period: this is why
   `PeriodHonest` excepts the time of other contacts that are still bound.
3. `CidNamesCall` (`eXosip.c:1038`, run `call_ids`). `cid` is a "unique id for SIP calls"
   (`eXosip.h:388`), but the event thread numbers calls without the lock: a call whose
   INVITE was reported with one number may get another one afterwards, under which the
   application finds no session when the call ends.

Met while modelling, without a run of their own:

* A SIGINT that is delivered to the supervisor between `fork` and the store of its result
  (`src/main.cpp:14`), or when a worker is just being forked again, makes the handler of
  `main.cpp:30`, which is to end parent and child, signal a worker that is gone: the
  supervisor exits and the new worker goes on.
* "wait "RETRY" (counter) seconds before retrying: avoid flooding" (`eXosip.c:1618`) does
  not hold for a short period: after a failure `birth_time` is 119 to 60 seconds in
  the past, which for a period of 60 always, and of up to about 130 for the first failures,
  satisfies the rule for the refresh (`eXosip.c:851`), and REGISTER is repeated at once.
  `RetriesSpaced` is about the periods that plan their refresh for RetryAfter or later,
  such as the default of 3600.
* A 423 without Min-Expires ends a registration for good (`eXregister_api.c:289`):
  `StaysRegistered` excepts it.
* An INVITE with a To tag that matches no dialog is answered 481 by a transaction that is put
  into no list (`udp.c:428-439`). osip drops it when it is over, and "TRANSACTION MUST NOW BE
  RELEASED BY END-USER" (`osip_transaction.c:369`); nobody does. In `InDialog` it has the
  owner `nobody`.
* The CANCEL of a re-INVITE is reported as `EXOSIP_CALL_CANCELLED` (`jcallback.c:354-365`),
  which `eXosip.h:323` has as "announce that call has been cancelled"; the application drops
  the session of a call that is up. `SessionLastsAsDialog` excepts it.
* The 400 for an INVITE without a session is sent only when it could *not* be built
  (`SipClient.cpp:138` tests for `!=`); what refuses the INVITE is the 603 of the
  `eXosip_call_terminate` after it.
* `eXosip.h` says of `EXOSIP_CALL_CLOSED` "a BYE was received for this call", but it is also
  reported for a refused and a dropped call (`jcallback.c:1644`, `eXosip.c:634`), and of
  `EXOSIP_REGISTRATION_SUCCESS` "user is successfully registred", but it is also reported
  when the only contact was deleted (`jcallback.c:1043`).
* The refresh of a short registration can come too late. A grant up to 15 s short does not
  change the period (`jcallback.c:1028`), and the refresh comes a tenth of the period, or
  6 s, before its end (`eXosip.c:851`). With a period of 60 and a grant of 48 s, within the
  slack, the refresh is due after 54 s. `NoIdleLapse` is about the periods of which
  this reserve is more than the slack and the lateness of the event thread: from 170 s on,
  if the thread is not late.
* A refresh that is challenged while the other thread is still handling the challenge uses up
  retries without sending (`eXosip.c:864-866`), and with none left the next attempt comes after
  120 s. The reserve is 100 s at most where the tenth decides: the binding of a period of up to
  some 1040 s then ends before it. `StaysRegistered` says for those only that the client is
  registered time and again (`ReserveForRetry`).
What the models also show, and no property forbids because no text promises otherwise: a
session whose INVITE was over before it could be answered (`Unanswerable`) stays in
`g_sessionMap` for good; a call may be up without media when its source is gone at the ACK;
a track whose codec no rtpmap line of the offer names is answered all the same, if a track
before it was, with that one's line, or if any line of the offer has the name in its text
(`s=opus`): the section then repeats that line, and its payload type is a leftover or, for
the first track, the uninitialised pt (`AnsweredAsOffered` is about the tracks whose codec
was offered); a line that has the name by the way, behind the rtpmap line, is repeated in
its stead, under the payload type of the last rtpmap line among them; a section of an offer without a direction
takes that of the next; the search of the offer goes on behind the empty line that ends it
for the parser; some offers end the worker (`InitThrows`).

## 6. Not modelled

* The failures of `StartStack` one by one: a worker that failed is "deaf" in `Daemon`, which
  nothing notices.
* The parsers of messages, headers and URIs: their result is a message of the models. Digest
  authentication: computation on strings. Sockets and TLS: a failing send, a lost, late or
  repeated datagram are in the models; TCP, TLS and DTLS are never started by this program,
  and make up, with DNS, most of eXosip's lines.
* Data races as such (`s_proxyMap` without a lock, freed transactions): the models
  interleave whole accesses, but for `CallIds`, which cuts them into load and store.
* `updatePt` and what ZLMediaKit reads from the global ini: the submodule is absent.
* What becomes of a worker that throws: it is a crash in `Daemon`.
* APIs the program never calls: outgoing calls, publish, subscribe, refer, with the client
  transaction of an INVITE.
* What is left out of single components is told with them in section 2.
* A caller that vanishes without a BYE keeps its session for ever; the models assume nothing
  of the caller, and no property says otherwise.

## 7. Plan

1. The header parsers of osip, as far as they split one line into several headers.
2. An abstract `CallService` (ringing, up, over) and `CallControl` shown to implement it; a
   composition of `CallControl` with `ProxyPool`, so that `media` and the senders agree.
3. The failures of `StartStack`, and a timed resending of lost 200s.
