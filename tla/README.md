# ISODE: TLA+ models and proofs of session, reliable transfer and remote operations

This directory specifies three layers of ISODE that stand on each other: the
session layer (`ssap/`), the reliable transfer service over it (`rtsap/`) and
remote operations over that (`rosap/` and the run-time library of `rosy/`). It
model-checks them with TLC on small instances and proves part of what they
promise with TLAPS for all instances. The session layer comes first because
every protocol of the stack that is not pure encoding runs over it; the two
layers above are its users in this repository, and the first that promise a
program something it can be wrong about: that what was transferred arrived once,
and that an operation was performed at most once.

Contents: [the system](#the-system) ·
[modules](#modules-and-the-code-they-model) · [runs](#runs) ·
[disagreements](#where-the-code-and-its-comments-disagree) ·
[bounds](#bounds) · [fairness](#fairness) · [proofs](#proofs) ·
[not modelled](#what-is-not-modelled) · [plan](#plan)

## The system

ISODE is an implementation of the OSI upper layers as a set of C libraries, one
per layer, with applications on top. A layer keeps a linked list of control
blocks, one per connection, identified towards the user by a descriptor. The
user calls a primitive, which checks the block's flags and arguments, changes
the block, builds a protocol data unit and calls the layer below; or he calls a
read routine, which blocks in the layer below, takes one data unit, checks it
against the block, changes the block and returns an indication. Most layers can
also be driven by signals (`...SetIndications`), which run the same read routine
from a handler. There are no threads; concurrency is that of two processes and
of what is under way between them.

| Component | State | Operations | Uses / used by |
| --- | --- | --- | --- |
| `tsap/` transport | `struct tsapblk`: flags, expedited option, partly read TSDU | connect, data, expedited data, disconnect; TP0 over TCP and X.25, TP4 front ends | kernel; `ssap` |
| `ssap/` session (partly modelled) | `struct ssapblk`: flags (one per service in progress), tokens owned, functional units, serial numbers V_A, V_M, V_R, last resynchronization, preparation | some two dozen primitives, one read routine, release loop | `tsap`; `psap2`, `rtsap` (1984 mode), `rosap` (1984 mode) |
| `psap2/` presentation | `struct psapblk`: contexts, and the session settings | one per session primitive, plus context handling | `ssap`; `acsap` |
| `psap2-lpp/` | the same over TCP or UDP | connect, data, abort, release | sockets |
| `psap/` | none: presentation elements and streams | encode, decode | everybody |
| `acsap/` association control | `struct assocblk` | associate, release, abort | `psap2` or `ssap` |
| `rtsap/` reliable transfer (partly modelled, over `ssap`) | `struct assocblk`: flags (turn, activity, request for the turn), checkpoint window and counters, partly received transfer | begin, please, give turn, transfer, wait, end; callbacks for the data | activities, minor points and control of `ssap`; `rosap` |
| `rosap/` remote operations (partly modelled, over `rtsap`) | the same block: an APDU or a release kept back | invoke, result, error, reject, wait | any service below; `rosy` |
| `rosy/` run-time (partly modelled) | `struct opsblk`: one per operation and role, `struct dspblk` | invoke, answer, wait and dispatch, lose | `rosap`; stubs |
| `rosy/`, `pepy/`, `pepsy/`, `ronot/` compilers and bind library | tables | stub and encoder generation | build time; `rosap` |
| `dsap/` | DAP/DSP operations, attribute and name syntax | bind, read, search, …, unbind | `rosap`; `quipu` and user agents |
| `quipu/` directory server | connection, task and operation lists, the tree of entries and its files | scheduler loop `dsa_wait`/`dsa_work`, tasks, chaining, shadowing, modification | `dsap/net`, `acsap` |
| `ftam/`, `ftam2/`, `ftam-ftp/`, `ftp-ftam/` | FTAM regime of each association | initialize, select, open, transfer, … | `acsap`, `psap2` |
| `vt/`, `imisc/`, `snmp/` | applications | terminal, small services, management | their libraries |
| `support/`, `dirent/`, `compat/`, `config/` | none of the protocol's | server start-up, portability, logging, addresses | everybody |
| `others/`, `paradise/`, `patches/` | contributed programs | — | — |
| `tests/`, `doc/`, `util/`, `docker/`, `k8s/` | — | conversions and address tests, manuals, deployment | — |

### What is hard in the session layer

* Both users act at once. Requests cross: resynchronizations with each other,
  with token passing, with major points, with activity ends and with release.
  Each end decides alone which of two survives (`SDoCollideAux`).
* With expedited transport a PR SPDU overtakes what was sent before it, and the
  receiver discards normal SPDUs until the one announced arrives.
* The release loop is a second reader with rules of its own; it may time out and
  be entered again.
* Some twenty flags guard the primitives (`ssapPsig`, `ssapXsig`, `ssapRsig`,
  `ssapAsig`, `ssapFsig`). A flag that is set and never cleared, or that refuses
  the response that would clear it, silently ends the connection's usefulness.
* A serial number counted at one end only makes the other end discard every
  later synchronization point without a trace.
* The transport may go at any time, with indications unanswered.

### What is hard above it

* One thread per end does everything. A call that waits reads whatever comes, so
  every call is also a reader, with the handlers of all indications inside it.
* `RtTransferRequest` reads the confirmations of its own checkpoints, requests
  for the turn, reports and aborts in two loops that leave for different reasons
  and return a variable that was set somewhere else.
* Sender and receiver count checkpoints on their own; `ACB_TURN` and the tokens
  of the session are two copies of one thing.
* To send without the turn, `ro2rtsready` asks for it and waits; what comes
  instead (an APDU, a release) must be kept and the call given up, without the
  APDU being lost, sent later all the same, or reported as something else.
* Results are matched to invocations by number and role alone, and the blocks of
  both are freed by half a dozen routines, some of them for the whole
  association.
* The association may go at any step of any of these.

### What makes each part correct

* Tokens: at most one end may use a token; none is lost.
* Synchronization: both ends have the same next serial number once nothing is
  under way; the restart window is never empty.
* Activities: both ends are in one or neither is.
* Confirmed services: a request in progress at one end is one the other user has
  been told of, and it is eventually answered.
* Collision: exactly one of two colliding requests survives.
* Release: nobody believes in a release the other end did not take part in; a
  freed block stays freed.
* Connection: two connected ends agree on functional units, tokens and serial
  number; no half-open connection stays.

* Reliable transfer: what is confirmed to one user was handed to the other once,
  whole and in order; what failed on a living association was not. The turn is
  never at both ends. Every call returns.
* Remote operations: an invocation is performed at most once; its invoker learns
  its fate once, and it is true; no operation block is forgotten.

The list of hazards in `PROJECT.json` places each of these at the line where it
bites.

## Modules and the code they model

| Module | Models |
| --- | --- |
| `SPkt` | `h/spkt.h`, `h/ssap.h`: sides, functional units, tokens, settings, SPDUs; `SDoCollideAux` |
| `Ssap` | two session protocol machines after S-CONNECT and the transport connection between them: every primitive of `ssap/`, every SPDU case of `SReadRequestAux`, the release loop |
| `SsapProperties` | what is claimed of `Ssap` |
| `MCSsap` | the instances of `Ssap` that TLC checks |
| `SsapConnect` | S-CONNECT: `ssapinitiate.c`, `ssaprespond.c`, and what is claimed of it |
| `MCSsapConnect` | its instance |
| `RtService` | abstract specification of the reliable transfer service: what RT-TRANSFER and the turn promise two users |
| `Rtsap` | two RTPMs over the session machines of `Ssap`: `rt2ss.c`, the release of `rt2ssreleas?.c`, the entry checks of `rtsap*.c` |
| `RtsapProperties`, `MCRtsap` | what is claimed of `Rtsap`, the refinement of `RtService` among it, and its instances |
| `Rosy` | two users of remote operations over `RtService`: `rosy/ry*.c` over `rosap/` over `ro2rts.c` |
| `RosyProperties`, `MCRosy` | what is claimed of `Rosy`, and its instances |
| `SsapProofs`, `SsapResync`, `SsapConnectProofs`, `RtServiceProofs`, `RtsapProofs`, `RtsapRefinement`, `RtsapPoints`, `RosyProofs` | theorems and proofs |

How they compose:

    Rosy        two ROPMs and their users
      | INSTANCE (R): every request and indication is an action of
    RtService   the abstract service
      ^ implemented by (Service!RtSpec, under a refinement mapping)
    Rtsap       two RTPMs
      | INSTANCE (S): every step is at most one primitive or read of
    Ssap        two SPMs, which start as SsapConnect leaves them

`Rosy` could not be checked over `Ssap` itself, whose state space leaves no room
for two more layers; that is what the abstract service is for.

`SsapConnect` ends where `Ssap` begins: `ConnectAgree` is what `Ssap!Init`
assumes of the two blocks (the same functional units, each available token with
exactly one end), and `SerialAgree`, which does not hold in general, is the rest
of it.

### State of `Ssap`

`sb[s]` is side *s*'s `struct ssapblk`, with the fields of the same names;
`sb_flags` is the set of flags that are up. A freed block is `newsblk`, a block
without `SB_CONN`. `inRelease[s]` says that the user's process is inside
`SRelRetryRequestAux`; `outcome[s]` is how the session ended for him (the
`SC_...` code he was given); `net[s]` is what the transport still has to deliver
to *s*, in order, with expedited SPDUs marked.

### Actions of `Ssap`

* One action per primitive, named after it: the `ssap?sig` macro, the checks of
  the `Aux` routine, the assignments, the SPDU written. Where two primitives are
  one routine with an argument (major point and activity end, interrupt and
  discard) the routine is an operator with that argument. A primitive that is
  refused changes nothing, so it is disabled.
* One action per case of the main switch of `SReadRequestAux` (`ReadXX`), behind
  the tests that come before the switch: `Discarded` (preparation, collision,
  exception), `Mangled` (the SPDU needs a functional unit the connection does
  not have, PR after PR), `Ignored` (the `freespkt`, `goto spin` exits).
  `ReadSpin` and `ReadMangled` are those exits.
* One action per case of the release loop (`RelXX`), its timer
  (`SRelTimeout`) and its retry.
* `TransportFails`: the network disconnects. `freesblk` closes the transport
  connection and so puts a T-DISCONNECT into the peer's queue.

The transport is external: TDataRequest keeps order, TExpdRequest may overtake
normal data but no other expedited data, T-DISCONNECT may destroy whatever is
still under way. That is what `ssap/` relies on and what `TReadRequest` gives
it.

Undefined serial arithmetic is not abstracted away: the response to a major
point after a resynchronization to zero would carry V_M − 1 = −1, which
`long2u32` refuses; that exit is `SMajSyncResponseBadConv`.

### State of `SsapConnect`

`phase[s]`, the negotiated fields of the two blocks, and the SPDUs under way.
`SConnResponseImproper` is the path on which `SConnResponse` reduces
`sb_requirements` and only then fails a check, so that a second call starts from
the reduced set.

### State and actions of `Rtsap`

`acb[s]` is side *s*'s `struct assocblk` (flags, length of what was received,
`acb_ssn`, `acb_ack`, `acb_actno`); `rts[s]` is where the thread of its user is:
a program counter for `rt2sstrans` and `RtEndRequestAux`, the primitive that an
indication handler is about to call (`do`), and the transfer asked for. The data
of a transfer is its number of chunks. `mode` is what RT-BEGIN agreed on and the
users have set: two-way alternate or monologue, checkpoints, window, callbacks.

A step is one session primitive or one SPDU read, with what the RTPM does around
it: `rt2sspturn`, `rt2ssgturn`; `Trans...` for the steps of `rt2sstrans`;
`doSS...` for each case of the handlers; then the call the handler makes
(`ReportSent`, `MinorConfirmed`, `ActivityDropped`, `Delivered`, `Discarding`,
`Interrupting`); `RtEnd...` for release. A primitive that the session refuses, or
`rtpktlose`, costs the association (`Refused`, `Lose`): both test with ENABLED
whether `Ssap` lets the primitive pass, so the two layers' idea of what is
allowed is compared, not assumed.

`Service` in `RtsapProperties` is the refinement mapping: an association is up
while `ACB_CONN` is set, the turn is `ACB_TURN`, the pending transfer is the
thread's.

### State and actions of `Rosy`

`acb[e]` holds the flags and the APDU kept back by `ro2rtsready` (its `SB_GTC`
is the flag of the session beneath, set from a GTC until the GTA is read, while
which the session refuses to ask for the turn, `ssaptoken.c:111`); `ops[e]` the
operation blocks, invoked (`OPB_INITIATOR`) and to be answered
(`OPB_RESPONDER`); `thread[e]` where the thread is (`ready` in `ro2rtsready`,
`transfer` in `RtTransferRequest`, `first` in the wait of a synchronous
`RoInvokeRequest`, `wait` in that of `RyWaitAux`, `serve` in a dispatched
function called from there); `ids[e]` the last invocation number; `told[e][id]`
what the user has been told of invocation *id*. `ind[e]` is the order in which
turns, requests, transfers and releases reach *e*, which `RtService` leaves
open.

`RyOpInvoke`, `RyDsResult` (also RyDsError) and `RoURejectRequest` are the calls
that send; `Ready...` what `ro2rtsready` makes of each indication; `Wait...` what
`ro2rtswait` and `RyWaitAux` make of it; `Loses`, `Quit` and `RtEnd...` the end.

An invocation either waits for its answer or names a function for its result and
one for its error. `RyOpInvoke` also takes an asynchronous one that names `out`
and no functions (`ryopinvoke.c:78-81`): its answer is kept in the block until a
`RyWait` asks for it (`OPB_EVENT`, `rywait.c:42-56, 298-316, 434-441`), and when
the association is lost `loseopblk` frees the block without a call
(`ryopblock.c:87`). Nobody in `Rosy` invokes so, and these branches are left out;
`Accounted` and `LossTold` say nothing of such a user.

## Runs

| Run | Instance | Checks |
| --- | --- | --- |
| `session` | minor and major points with tokens changing hands; activities with start, resume, interrupt, discard, end, give control, capability data; minor points in activities; resynchronizations of all three types crossing each other, major points and tokens; release crossing resynchronization; negotiated release with data, abort and transport failure; collision, timeout and retry of releases | `TypeOK`, `TokenExclusive`, `TokenConserved`, `SsnAgree`, `ActAgree`, `PendingKnown`, `OneResponder`, `ResyncWindow`, `ReleasedTogether`, `FreedIsGone` |
| `expedited` | expedited transport: PR SPDUs overtaking; expedited data during preparation; exception reports | `TokenExclusive`, `PreparationEnds`, `ExceptionKnown` |
| `live` | major points; activities; negotiated release with data; colliding resynchronizations with settings left to either end; under fairness | `NoProtocolError`, `ResyncKnown`, `MajorSyncEnds`, `InterruptEnds`, `ReleaseEnds`, `ResyncEnds` |
| `connect` | establishment with every subset of six functional units, five settings | `TypeOK`, `ConnectAgree`, `NoHalfOpen` |
| `rts` | five modes of association, with refusing receivers, failing callbacks, time limits and a transport that disconnects, under fairness | `RtTypeOK`, `WindowKept`, `PointsOrdered`, `TurnIsTokens`, `TransferOwned`, `ServiceKept`, `LosesWithCause`, `TransferReturns` |
| `ros` | a synchronous client, an asynchronous client, two peers, two invocations an end, the association lost at any step, under fairness | `RoTypeOK`, `OncePerInvocation`, `ToldTrue`, `Accounted`, `ReadyUnasked`, `ToldOnce`, `ReadyEnds`, `ClientAnswered`, `LossTold` |
| `v_...` | see below | one property each, violated |

`ServiceKept` is the refinement: `Rtsap` over `Ssap` implements `RtService`.

Deadlock is not checked: sessions and associations end, and users who have used
up their bounds have nothing left to call. That nobody is left waiting is what
the liveness properties say.

Each property has at least one mutant in `PROJECT.json`: a change of one mapped
definition (a dropped guard, a missing reset, a tie broken the wrong way) under
which the property's own run finds it violated.

## Where the code and its comments disagree

Each of these is a run that ends in a counterexample.

* `v_resync_dropped` / `ResyncKnown`. A restart chosen before the confirmation
  of a major point was read arrives below the peer's V_R and is freed
  (`ssaprovider.c:882`). `SB_RS` stands for ever at the requester, who may do
  nothing but read and abort.
* `v_answer` / `Answerable`. `ssapRsig` refuses while `SB_AE` is set, the response
  to a resynchronization included (`spkt.h:150`). A resynchronization that
  crosses an activity end leaves a user with `SB_RA`, "awaiting RS response from
  user", who may not respond. In the same way an FN that crosses an RS leaves its
  receiver with `SB_FINN` and `SB_RS`: `SRelResponse` is refused for the one,
  `SReadRequest` for the other.
* `v_token_lost` / `TokenConserved`. A GT without the data token that reaches an
  end with an exception report outstanding is discarded (`ssaprovider.c:399`);
  the giver has already dropped the token.
* `v_connect_isn` / `SerialAgree`. A responder's own initial serial number goes
  into the AC and not into his block (`ssaprespond.c:360`); from then on each end
  discards the other's synchronization points.

* `v_rts_hang` / `TimedTransferReturns`. `RtTransferRequest` looks at its time
  limit between chunks only. A receiver that has reported an exception has its
  session discard everything but the answer to the report, and the RTPM answers
  with S-ACTIVITY-DISCARD (`rt2ss.c:868`), which is discarded too: the sender
  waits in the window loop or the last loop for ever, limit or not.
* `v_ros_done` / `ReleaseTold`. An APDU that `ro2rtsready` kept back is handed
  over with DONE instead of OK (`ro2rts.c:111`). `RyWait` takes that for a
  release, throws the APDU away and tells the user that every operation in
  progress was rejected because of "Initiator releasing". The association lives.

Also seen while modelling, without a run of its own:

* The end that confirms a minor point sets V_A to ssn + 1 (`ssapminor2.c:45`), the
  end that reads the confirmation to ssn (`ssaprovider.c:869`); V_A is the "lowest
  unconfirmed ssn" (`spkt.h:390`). The request's number is checked from below
  only.
* A refusal (NF) that is read by the retry of a timed-out release leaves
  `SB_RELEASE` set (`ssaprelease1.c:159-166`), so the connection that goes on
  refuses everything but reading, abort and another retry.
* Over expedited transport a responder who overrides a resynchronization twice
  makes the other end find "PR SPDU followed by PR" (`ssaprovider.c:331`): two
  ISODE ends accuse each other. `NoProtocolError` is therefore claimed for
  normal transport.
* A transfer whose `downtrans` callback fails is discarded and then ended as if
  nothing had happened (`rt2ss.c:153`, result still OK); the session refuses the
  end and the association is aborted. A receiver's report after S-ACTIVITY-END
  costs the association as well, so does a request for the turn that crosses a
  release, and RT-TURN-PLEASE right after RT-TURN-GIVE, before the session has
  read the acknowledgement. `LosesWithCause` lists these causes and excludes all
  others.
* `acb_window` is taken from the peer unchecked (`rt2ssrespond.c:137`); with 0 a
  sender waits for ever for a confirmation beyond the last point.
* When `doRTSturn` fails inside `ro2rtsready` the result is DONE, which its
  caller, who tests for NOTOK, takes for leave to write the APDU without the turn
  (`ro2rts.c:350`). It does not happen: the session refuses to ask for the turn
  before the GTA for the last one given is read, every request of the other end
  comes before that GTA, and an end that has the turn does not ask. This is
  `ReadyUnasked`, which is proved.
* An asynchronous client with two invocations outstanding can lose both answers:
  at the performer the DONE of `v_ros_done` frees the blocks of what he was still to
  answer. `ClientAnswered` is therefore claimed for synchronous clients.
* Two ends that wait synchronously for each other, each with an answer it has
  put off, wait for ever; a synchronous invocation made from inside a dispatched
  function may take the outer one's result and leave it waiting.
* A result without a block is rejected under its own number (`rywait.c:215`), and
  the block is missing when that DONE freed it. The other end looks for the number
  among its own invocations (`rywait.c:418`) and may tell the invoker of one that
  is being performed that it was rejected. The manual has it that the number is
  that "of the request which generated the rejection" (`doc/isode-interim`,
  volume 1, `rou_id`). TLC reaches this with two peers and two invocations; no
  property of `ros` says when a rejection may be told.
* When `RyOpInvoke` fails for good it frees its own block and no other: `LossTold`
  needs the user to call `RyLose`.
* A major point read during an exception is counted and never indicated
  (`ssaprovider.c:782`).
* Duplex or typed data that crosses an FN reaches the release loop, which aborts
  the connection. `live` therefore releases half-duplex connections.
* A user who owes the confirmation of a major point may start and discard
  activities for ever instead of giving it; `MajorSyncEnds` is claimed for
  connections without activities.

## Bounds

* `MaxSsn` (1 or 2) bounds the serial numbers users bring about. Two points tell
  the first point after a change of direction from the next one (`SB_Vsc`), give
  a restart a number below and one above the window, and let a resumed activity
  differ from a started one. Nothing in the code depends on the size of a serial
  number but zero, which is included, and `SERIAL_MAX`, which is far away.
* `MaxQueue` (2 or 3) bounds requests, not answers: nothing is *started* while so
  many SPDUs are under way to the peer, so queues become longer than the bound.
  Two let a request cross an answer and another request in each direction, which
  is what the collision rules speak of.
* `Isn = {0}`: both ends start alike, and only differences matter afterwards.
* `Profiles` and `Requests` give each run its connections (functional units) and
  what their users call. Together the runs call every primitive and read every
  SPDU. Every distribution of the available tokens is an initial state.
* `ResyncSettings`: all tokens to one end or to the other, in `live` also left to
  the responder. Tokens are treated alike by the code.
* `connect`: six units, chosen so that each rule about combinations applies, and
  five settings.
* `rts`: `MaxChunks` 3 makes two points, so that a window of one is full before the
  last chunk and a window of two is reached; `MaxTransfers` is two where only one
  end sends (what a transfer leaves behind meets the next), one where both do;
  `MaxPlease` 1 is one request for the turn under way, which an end may repeat.
  The five modes: monologue with a window of two; monologue with callbacks at
  both ends; two-way alternate, plain, with a callback, and without checkpoints.
  The bounds of the session beneath are above what the RTPMs bring about and
  disable nothing.
* `ros`: `MaxId` 2, two invocations an end: one in call and one outstanding, or an
  invocation and an answer under the same number in each direction.

No symmetry is declared: the two sides are not alike, since ties go to the
initiator.

## Fairness

`Ssap!FairSpec` has weak fairness, for each side, of `Reading`, `Responding` and
`Releasing`. The library never acts by itself: progress is the users'. What is
assumed is what its documentation asks of a user: he goes on calling
`SReadRequest` (or has set up asynchronous indications), answers an indication
that wants a response (the primitives that are refused meanwhile leave him little
else), and neither stays away from nor gives up a release he has started.
Nothing is assumed of requests, of timers, of the transport, or of the
confirmation of minor points, which is optional. Each of these actions stays
enabled until taken or until the session ends, so weak fairness is enough; where
it is not (a user with something else to do at every moment) the property is
restricted instead, see `MajorSyncEnds`.

`Rtsap!FairSpec` and `Rosy!FairSpec` have weak fairness of `Working` for each end:
a thread inside the library goes on, and a user with nothing else to do waits
for indications and answers what he accepted. Requests, the clock
(`TransTimer`), the transport and the failure of the service (`Breaks`) are not
in it, so nothing ever ends because a timer or a failure must come. `Working` is
one action per end because the thread is one: fairness never makes it do two
things at once.

## Proofs

**`SsapProofs`.** `TypeCorrect` and `FreedForGood`: `TypeOK` and `FreedIsGone` of
`Ssap`, for every set of profiles and calls and for queues of any length. The
inductive invariant is their conjunction `Inv`. `FreedIsGone` needs the types,
and it needs both its halves: a release loop reads with no test of the block, so
that it runs on a live block only (`~Connected(s) => ~inRelease[s]`) is what
keeps it from reviving a freed one, and that a freed block is all zero is what
keeps `SRelRetryRequest` from starting a loop on it. Four lemmas treat the shapes of a
step (`RequestKeeps`, `AcceptKeeps`, `ResumeKeeps`, `FreeKeeps`, the first three
from `StepKeeps`); each action then only has to show that the block it stores is
well formed and still has `SB_CONN`, and the SPDU it sends well formed. That the
MAA's V_M − 1 is a natural number comes from the guard that separates
`SMajSyncResponseAux` from `SMajSyncResponseBadConv`.

**`SsapResync`.** `CollisionHasOneWinner`: for all operations and serial numbers
the initiator keeps its own request exactly if the responder gives way. The
argument is that `Precedence` is injective (two lemmas), so different operations
are ordered, and equal ones are separated by serial number and then by role. Two
interruptions or two discards are excluded: there both ends claim to win, and
only possession of the one major/activity token keeps them from colliding.

That the rule is right does not yet make the protocol right: each SPM applies it
to an RS that may have been under way for long, while its sender may have given
way to another since. `OneEndResponds` (`OneResponder`), `TokensApart`
(`TokenExclusive`) and `BothLeave`
(`ReleasedTogether`) show that it is, for every profile, set of calls, length of
queue, and with or without an expedited flow. They are proved together, because
a resynchronization may make an end stay that was leaving, and it takes back
tokens that were given. The inductive
invariant `ResyncInv` speaks of the views of the two ends, that is their pending
flags, `sb_rs`, `sb_rsn` and all they have still to read (the SPDU put back by the
release loop first):

* `BidsOK`: each RS under way is the one its sender waits for, and then the last
  and before any answer, or one that its reader beats and will beat as long as it
  is under way, since no answer is in front of it;
* `AskedOK`, `IntrOK`: an end that owes an answer to RS, AI or AD, or has sent one
  that is under way, has a peer that waits for it, and there is one answer;
* `FinishOK`: an FN, read or under way, has a sender that is still leaving, or it
  reaches an end that waits for its own RS until then and so may not accept it;
* `RefuseOK`: an NF reaches an end that is still leaving, and nothing in front of
  it makes that end stay;
* `DoneOK`: with a DN under way both ends are leaving and nothing under way makes
  either stay; and an end whose peer was told "released" is so too;
* `HandsOK`: each token is due once, at one end (`OnceOK`, `ApartOK`). A token is
  due to an end that owns it or is about to read the GT, GTC, RA, AIA or ADA that
  brings it, provided the end will by then have read the answer that it waits
  for. That the answers under way come in the right place among the tokens is
  `WorkOK`: a GT or GTC comes after no AI or AD and only after an RS that its
  reader beats, an end that owes an answer has none to read, and an RA leaves no
  available token to be settled.

`OneResponder` is `AskedOK` with the fact that no end both waits and owes
(`FlagsOK`). `TokenExclusive` is `ApartOK` for two ends that neither wait nor owe.
It could not be stated of what the ends own: while a resynchronization or an
interruption is under way both may have the same token in `sb_owned`, and a GT
that crosses an RS is still read, by an end that will lose the token again when
it reads the RA. `ReleasedTogether` at the step that accepts an FN is `FinishOK` with
`BidsOK` and `RefuseOK`, at the step that reads a DN it is `DoneOK`. The proof first
has one lemma per event on views and queues (an RS is sent, read, put back, ...),
with no mention of `Ssap`; then it shows which event each action is. All actions
that touch none of this are one case (`CalmMoves`).

**`SsapConnectProofs`.** `TypeCorrect`, `Agreement` (`ConnectAgree`) and
`BothOpenOrNone` (`NoHalfOpen`).
`ConnectAgree` is not inductive: the ends are never compared. The invariant
`AgreeInv` adds that the CN under way is a copy of the initiator's proposal, that
the responder's block only shrinks from it, and that the AC under way is a copy
of what the responder stored. `NoHalfOpen` speaks of two ends at rest, so its
invariant `OpenOK` accounts for what is still under way: an end that has gone
has a T-DISCONNECT on the way to the other, the AC of a responder that is
connected is on the way as long as the initiator waits, and behind a CN that
outlives its initiator comes the T-DISCONNECT.

**`RtServiceProofs`.** `ReliableService` (`Reliable`) and `OneTurn`
(`TurnExclusive`) of the abstract service. Their conjunction is inductive once
the domains are known: a transfer is handed over only while its sender has
nothing else unconfirmed, and given up only if it was not handed over.

**`RtsapProofs`.** `RtTypeCorrect`, `TransferKeepsTurn` (`TransferOwned`) and
`SessionKept`, from one invariant, `RtInv`. `SessionKept` rests on every step of
the RTPMs being a step of `Ssap` (with the confirmation of any minor point that
was read) or leaving it alone, so that what `SsapProofs` shows of the session
holds beneath: `Rtsap` takes its session from `SsapProofs` with
`INSTANCE`, and the theorems come with it. The types of the RTPM need it, since
serial numbers and the SPDUs read come from the session. `RtTypeOK` is not
inductive: `left`, the chunks still to send, is a natural number only because a
thread that sends has some left, which `AfterStart` and `AfterData` bring about.

**`RtsapRefinement`.** `RtImplementsService` (`ServiceKept`): the two RTPMs over
the session implement `RtService`, for every window, number of chunks, set of
faults and interleaving. `TurnFollowsTokens` (`TurnIsTokens`) comes out of the
same invariant, and `RtIsReliable` carries `Reliable` and `TurnExclusive` over from
the service. The inductive invariant `TransferInv` ties each end to what is under
way to the other:

* `SideOK`: `ACB_CONN` and `SB_CONN` agree, `ACB_TURN` and the tokens agree, and a
  freed block is empty;
* `ThreadOK`: a thread in `rt2sstrans` knows what it has asked of the session: in
  its last loop the session waits for an MAA, or for the answer to a discard and
  then the time had run out; outside it `SB_MAP` is not set;
* `QueueOK`: behind an AE, AI, AD or GTC the end with the turn says nothing more,
  and of MAA, AIA and ADA there is one under way;
* `TurnOK`: one end has the turn or a GTC is under way, and the end without it has
  said nothing that only the other may;
* `PhaseOK`: an AE, AI or AD, the handler that answers it and the answer exclude
  each other, and each is there only while the sender's session waits;
* `DataOK`: chunks to send, under way and received add up to the transfer, as long
  as nothing of it was dropped; and an MAA under way stands for a transfer that
  was handed over and not yet confirmed.

Each part needs the ones before: that RtTransferRequest returns OK only for what
was handed over is `DataOK` at the step that reads an MAA; that the chunks add up
when the AE is read needs the sender to have nothing left when it calls
SActEndRequest (`ThreadOK`) and nothing to come behind the AE (`QueueOK`); that the
MAA belongs to this AE and not to one before needs `PhaseOK`; and all of it needs
one speaker at a time (`TurnOK`). The proof first describes what the primitives of
the session do to what `TransferInv` mentions (one lemma per shape: an SPDU
written, an SPDU taken, a block freed), then has one lemma per step of the RTPM
that it keeps the invariant, and one that it is the step of `RtService` it should
be, or a stutter.

**`RtsapPoints`.** `PointsInOrder` (`PointsOrdered`) and `WindowIsKept`
(`WindowKept`), on top of `TransferInv`. Neither property is inductive: each end
counts points on its own, in the session (`V_M`, `V_A`) and in the RTPM
(`acb_ssn`, `acb_ack`), and `acb_ack` is set to whatever number an MIA carries. The
inductive invariant `PointInv` gives the numbers under way their place. In the
transfer of m to p

    acb_ack of m < MIAs to m < the point p is about to confirm
                 < V_M of p <= MIPs to p < V_M of m = acb_ssn of m + 1

* `Numbered`, `OrderOK`: the MIPs of a queue grow and leave no number out, the MIAs
  grow, the AS comes before the points of its activity and no MIA comes behind
  the answer that ends it;
* `ReceiverOK`, `SenderOK`: the part of the chain that one end knows by itself, and
  the two bounds on `acb_ssn - acb_ack` (at most the window; less than the window
  wherever rt2sstrans goes on to send);
* `ActivityOK`: once the transfer has ended nothing of it is left to either end,
  so that the next SActStartRequest starts from 1 on both sides. While the AS is
  under way the next number of p is 1 and not its `V_M` (`NextPoint`), which is
  still that of the transfer before;
* `PointsOK`: the chain itself.

The window then follows by counting: the numbers of the points under way, of the
one about to be confirmed and of the confirmations under way are all different
and lie between `acb_ack + 1` and `acb_ssn` (`WindowFits`).

**`RosyProofs`.** `UsesService`: every step of the ROPMs is a step of `RtService`
or a stutter, so that the invariants of `RtServiceProofs` hold beneath. Then
`RoTypeCorrect`, `AtMostOnce` (`OncePerInvocation`), `Truthful` (`ToldTrue`),
`NoneForgotten` (`Accounted`) and `ToldForGood` (`ToldOnce`), from the invariant
`RoInv`, the conjunction of the types, the invariants of the service,
`OncePerInvocation` itself, `Fresh`, and for each end

* `Threaded`: where the thread is agrees with what it has to send: on a living
  association something is pending only in `transfer`, and then it is the APDU of
  the call; a call that sends an invocation or an answer has its operation block;
* `Invoked`: the blocks of the invoker are his numbers without an answer, no
  number beyond the last has left, and one that was refused, or that still waits
  for the turn, has not left;
* `Performed`: a block to be answered belongs to an invocation that was handed
  over, and its result has left only inside the call that sends it, or on an
  association that is gone; a result that was told was received.

An APDU has "left" when it was handed over or is pending. `OncePerInvocation`
speaks of what was handed over only, and a second copy becomes visible there
late: what keeps it from happening is that nothing leaves twice, and that needs
the blocks (an answer leaves while its block is there, and the block goes before
another call can begin) and `Fresh` (what is pending and not handed over has
not been handed over before). Each action is first shown to belong to one of a
few shapes (`Keeps`: of the service it requests, delivers, confirms or does
nothing, it leaves the other end still and its own end in order), and such a
step to preserve the whole invariant.

`NeverAskedWhileAsking` (`ReadyUnasked`) needs `TurnInv` besides, which says where
the turn is while it and the requests for it are under way. For each end: no
request comes behind an acknowledgement, and neither an acknowledgement nor
another turn behind a turn; a turn under way is the only one, and nobody has it;
an acknowledgement under way is the only one, and its sender holds the turn; an end *holds* the turn when it has it or has
given it and not read the acknowledgement (`SB_GTC`); while it does not hold the
turn no request is on its way to it or kept for it; an end in `ready` does not
hold it, an end that sends does; and of two living ends one holds it. Each action
is one of six kinds (`TurnStep`: it leaves the turn alone, asks, gives, takes,
reads an acknowledgement or leaves the association), and each kind preserves
`TurnInv`.

Assumptions: the named `ASSUME`s of `Ssap`, `SsapConnect`, `Rtsap` and `Rosy`
only (profiles are sets of functional units, settings are settings, modes are
modes, numbers are natural numbers, expedited data needs an expedited
transport). TLC evaluates them in the runs.

Only model-checked: the other invariants of `SsapProperties`,
`LosesWithCause`, and everything about fairness. Liveness and
`ENABLED` are beyond the prover; `LosesWithCause` rests on the latter, in the
guard of `Rtsap!Lose`. (The other theorems do not: they hold wherever `Lose` and
`Refused` are enabled.)

Most of those invariants of `SsapProperties` cannot be theorems, because they do
not hold of this code for every set of functional units and calls; the runs show
for which they do. Where TLC leaves the sets of calls in `MCSsap` it finds:

* `TokenConserved`, `ResyncKnown`: see the findings (`v_token_lost`,
  `v_resync_dropped`);
* `NoProtocolError`: without an expedited flow, an end that has sent an exception
  report, is resynchronized and asks for release reads an ED in its release loop;
  with one, a second PR may overtake the SPDU that the first announced;
* `PreparationEnds`: the release loop takes the RS that a PR announced without
  ending the preparation;
* `ExceptionKnown`: the ED is read by an end that resynchronizes, and its RS is
  then discarded;
* `PendingKnown`: a MAP read during an exception is counted but not indicated, so
  nobody will confirm it;
* `SsnAgree`, `ActAgree`: with an expedited flow, activities and resynchronization,
  the PR of an RS makes its reader discard an AS or AR that was sent before it.

`ResyncWindow` is the one left that TLC has found no counterexample to, for any
set of functional units tried. It is not inductive: whether the number an MAA
raises `V_R` to is beyond the point of a restart depends on where the MAA, the RS
and the RA are among the SPDUs that cross, at both ends. No proof of it is
given here.

## What is not modelled

* Segmentation of SSDUs over several SPDUs and TSDUs, user data, concatenation:
  an SPDU is one unit. A category 0 SPDU in front of another is empty here.
* The ER SPDU and `SB_ERACK`: this implementation never sends one.
* In `SsapConnect`: addresses, references, protocol versions, TSDU sizes and the
  failure of the write of a CN.
* Encoding of SPDUs (`tsdu2spkt.c`, `text2spkt.c`, `str2spkt.c`), reason texts,
  select masks, server start.
* RT-BEGIN and its negotiation (it is the initial state of `Rtsap`), allocation
  failures of a sender, the one of a receiver without `uptrans` at the first chunk
  of a transfer (`rt2ss.c:515-526` does not look at what `qb2str` returns and
  counts the octets all the same), S-ACTIVITY-RESUME (never requested by this program), and
  the X.228 mapping `rt2ps.c`, which repeats `rt2ss.c` over `psap2`.
* Remote operations over session (`ro2ss.c`) and presentation (`ro2ps.c`), where
  there is no turn to ask for; asynchronous indications (`RoSetIndications`);
  `RyDiscard`, `RyStub` and interrupts, timed waits, operations without a result,
  asynchronous invocations whose answers are collected later (`out` without
  functions, see above), APDUs that do not decode and what they carry.
* `quipu/`. Its scheduler (`dsa_wait.c`, `task_select.c`, `oper_*.c`, `conn_*.c`)
  was read in full: tasks, operations and connections are linked lists that point
  at each other, freed in several places while another list still refers to
  them. A model of it has to choose between the lists as they are meant and
  memory as it is; neither is a translation that could be compared with the
  code, so it was left out. Two things that were seen there: operations that
  wait for a connection are dropped when its opening fails
  (`task_select.c:211-261`), and the number of connections in use is recounted
  in each pass rather than kept.
* Every other component of the table above, with the reason in `PROJECT.json`.

The repository has some 360,000 lines. Most are applications, compilers, their
output, directory attribute syntax and contributed programs, with no protocol
between two parties in them; the modelled share is small for that reason. Within
`ssap/`, `rtsap/` over session, `rosap/` over `rtsap/` and the run-time of `rosy/`
it is nearly all of the code that keeps state.

## Plan

1. `ResyncWindow` of `Ssap` for all instances, which needs the serial numbers of
   MAA and RS SPDUs that cross.
2. `SsapSegment`: SSDU segmentation and reassembly in `SDataRequestAux` and
   `SReadRequestAux`, with the preparation and abort in the middle of an SSDU.
3. `Acsap` release over presentation release; `rt2ps.c` and `ro2ps.c` over it.
4. `Tsap`: TP0 over TCP, connection, disconnection and partly read TSDUs.
5. `Quipu`: the connection and operation lists, once the question above is
   settled.
