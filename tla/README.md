# TLA+ models of swad

swad is a small HTTP service that authenticates users for a reverse proxy: the
proxy asks `GET /` whether the session of a request is logged in for a realm,
and sends the browser to the login form when it is not. This directory models
the parts of it that are hard to test: threads that share sessions, a helper
process that may die, timeouts that race answers, and memory that is passed
between event handlers. All paths below are relative to `src/src/bin/swad/`
unless they start with `src/`.

## The system

One main thread runs an event loop (from the library poser, which is not part
of the repository) with all network input and output. Complete requests become
jobs of a thread pool; a worker runs the pipeline of middlewares and then the
handler of the route, all of them synchronously, and the main thread sends the
response.

| component | state it keeps | operations | works with | what makes it correct |
|---|---|---|---|---|
| PAM checker `cred/pamchecker.c` | one slot for a request, two semaphores, a mutex, a thread, a child process | `check`, the thread's loop, SIGCHLD, create, destroy | called by the authenticator with its lock held; pipes to the helper | never accepts what PAM does not; a login comes back; shutdown ends |
| PAM helper `src/src/libexec/swad_pam/main.c` | the user it authenticates | one dialogue per login | the two pipes | answers in lockstep |
| rate limiter `ratelimit.c` | per limit and id a ring of counters | `RateLimit_check` | sessions (per remote), authenticator (per user name) | a sliding window |
| authenticator `authenticator.c` | per session and realm: user, blocked names, failures | login, silent login, logout, user | PAM checker, rate limiter, session | nobody is logged in for a realm unless a checker of it accepted; failed logins are limited |
| endpoints `handler/root.c`, `handler/login.c` | six properties of the session | GET /, GET and POST of the login route | session, authenticator, CSRF protection | a login is for the realm of its form; messages belong to their form |
| CSRF protection `middleware/csrfprotect.c` | a token in the session | create, test and clear | login handler | a form can be sent once |
| session store `middleware/session.c` | hash table of lists, a lock per bucket, time of the last sweep; per session a table of properties and a referrer | lookup, create, expire, sweep, properties | rate limiter, cookies | chains stay sound; sessions neither vanish nor stay for ever; no property is used after it was freed |
| HTTP server `httpserver.c` | per connection: idle timer, job; routes and middlewares | accept, request, response, timeouts, cancel, close | request, context, response, pool | no object is used after it was freed, all are released |
| context `http/httpcontext.c` | request, response, properties, place in the pipeline | run the next middleware, set the response | server, worker | one response, sent once |
| request `http/httprequest.c` | parser state, header field being read, body | a line or chunk arrives | connection, header set | all fields and the body arrive as they were sent |
| response `http/httpresponse.c` | header set, body, place in it | send, abort | connection, header set | what is sent fits its buffer |
| header set `http/headerset.c` | hash table, counts | add, set, remove, first, single, iterate | request, response | an iterator sees every field once |
| cookies `middleware/cookies.c` | cookies of one request, and the ones to set | parse `Cookie`, add `Set-Cookie` | context, session store | the session id comes back |
| form data, path parser `middleware/` | parameters of one request | parse body or path, look up | context, handlers | parameters arrive as sent and are valid UTF-8 |
| compression `middleware/compress.c` | none | replace the body of a response | context, response | the length in the head is that of the body |
| proxy list, addresses `proxylist.c`, `ipaddr.c` | list of remotes of a request | parse forwarding headers | rate limit of sessions, log | the client cannot choose which entry is trusted |
| configuration `config.c` | options | read arguments and file | main | ranges survive their conversions |
| main program `main.c` | servers that run | start up, shut down | all | what runs is what was configured |
| templates `template.c`, `htmlescape.c` | variables of one page | set a variable, process | login handler | values never become names or markup |
| conversions and tables (`urlencode.c`, `utf8.c`, `random.c`, `base64.c`, `util.c`, `mediatype.c`, `http/httpstatus.c`) | none, but for the seed of a fallback in `random.c` | pure functions | everybody | an encoded text decodes to itself; no invalid UTF-8 is left |

What is hard in it:

- *Concurrency.* Requests of one session run on several workers. Properties of
  a session are locked one access at a time, so a handler sees the changes of
  another one between any two accesses. Sessions are appended without a lock.
- *Failure.* The helper process may die at any point of a dialogue, and the
  client may close the connection at any point of a request.
- *Time.* Four timers interact: the idle timer of a connection (10 s), the
  timeout of a job (30 s), the age and idle time of sessions and their sweep,
  and the rate limits, whose ticks have 16 bits.
- *Ownership.* Requests, contexts and responses are released from several event
  handlers, registered and unregistered as the request proceeds. Session
  properties and users are handed out as pointers and used without a lock.
- *Texts.* A handful of formats are parsed by hand, several of them with quotes,
  gaps or escapes, and all of them written by clients.
- *Sequences.* Command line and file configure the same settings, in any order.

## Modules

| module | models | state and actions |
|---|---|---|
| `PamChecker` | PAM checker and helper | `wpc`, `tpc`, `cpc`, `mpc` are the places of the workers in `check()`, of the controlling thread in `pamthreadproc()`, of the helper and of the main thread; every lock, semaphore and pipe operation is an action. A name or a password is the sequence of its lines, and the helper reads the first one (`FirstLine`, `AsRead`); what PAM accepts is the constant `Valid`, pairs of lines. `irq` is the one signal that the timeout of a job sends to its worker, which interrupts a `sem_wait()` or is lost. |
| `PamChecker_proofs` | | theorems about it |
| `MCPam` | | users, passwords and accepted pairs for TLC |
| `RateLimit` | rate limiter | `entries[i][id]` is the ring of limit `i`; `ReadClock` and `Check` are separate because the clock is read before the mutex is taken |
| `RateLimit_proofs` | | theorems about it, and that it implements `WindowLimit` |
| `WindowLimit` | abstract specification | the checks granted in the window, and nothing else |
| `Authenticator` | authenticator, for one session | `info[r]` is the `AuthInfo` of realm `r`; one action per outcome of `Authenticator_login`, and `SilentLogin`, `Logout`. The limiter of failures is a window over `fails`, counted in ticks (`Res` seconds each, `NCounts` of them) as `ratelimit.c` rounds them. |
| `Authenticator_proofs` | | theorems about it |
| `LoginFlow` | both endpoints and the CSRF middleware; extends `Authenticator` | `prop` holds the session's properties; each read, write or removal of one is a step of the request a thread runs (`job[t]`), where other requests may come between; `forms` is what browsers have got so far |
| `LoginFlow_proofs` | | theorems about it |
| `SessionStore` | session store | `head` and `next` are the pointers, `live` and `freed` the records; a sweep goes record by record under the lock of its bucket, and so does a creation without that lock (`ReadHead`, `TailTest`, `TailStep`, `AppendSession`: every access is a step). A creation that reads or writes a record that was given back sets `strayed`, where the behaviour ends, as nothing is defined from then on. |
| `SessionStore_proofs` | | theorems about it and `SessionProps` |
| `SessionProps` | the memory of the properties of one session, its referrer, and the users of the authenticator | every object a property has held has a number; a request is the list of accesses its handler makes (`steps[t]`), `ptr[t]` the pointers it has got, `gone` what was freed. `LoginFlow` models what the properties say. |
| `HttpConnection` | one connection: server, life of request, context, response and job | `req`, `ctx`, `resp` tell for each object whether it is live, scheduled for deletion, freed or misused; `onClosed`, `onSent`, `onFinished` are the registered handlers; the client's name may be resolved at any time |
| `HttpConnection_proofs` | | theorems about it |
| `HeaderSet` | header sets | operators on a table of lists, iterators included. An iterator over all fields of an empty set would look past the table (`headerset.c:270-275`); it is only made by `HttpResponse_send()`, which has put a field into the set before (`http/httpresponse.c:298-310`), so that there is no such step. |
| `RequestParser` | receiving a request; extends `HeaderSet` | the three states of `dataReceived()` with the field that is being read; lines are pieces of values, the body is bytes named by their place |
| `ResponseHeaders` | head and body of a response, and compression; extends `HeaderSet` | fields and bodies are put, the body may be compressed, the buffer is allocated, the iterator fills it, the body goes out in pieces |
| `Message_proofs` | | theorems about `RequestParser` and `ResponseHeaders`, and lemmas about `HeaderSet` |
| `Texts` | environment | `text`, a text of some `kind` that grows piece by piece, and its helpers |
| `ProxyList` | list of proxies; extends `Texts` | functions on sequences of symbols |
| `IpAddr` | addresses; extends `Texts` | a number is one symbol; sizes of byte and address are constants |
| `UrlText` | percent encoding and UTF-8; extends `Texts` | functions on sequences of bytes |
| `Params` | form data and path parser; extends `UrlText` | |
| `CookieText` | cookies; extends `UrlText` | |
| `TemplateText` | templates and HTML escapes; extends `UrlText` | the variables are the constant `TmplVars` |
| `Config` | configuration | one action per word of the command line and per line of the file; the file is made of the lines of one member of `Files`. `LimitRoom` and `CheckerRoom` are the elements of the arrays (8); the tests for a full array in the code compare with its size in bytes and come too late, so that a line too many (`PastRoom`) leads to the phase "undefined", which stands for whatever a write past the array does. |
| `Startup` | main program, and registration in authenticator and session store; extends `Config` | `Prestartup`, `PrestartupCrash`, `Shutdown`; `started` has the options of each server that runs |
| `Startup_proofs` | | theorems about it and `Config` |
| `MCLogin`, `MCRate` | | values for the constants |
| `MCAuth` | composition | reads the configuration, starts the service (`Startup`) and, with the file that configures it, lets sessions log in (`Authenticator`) until it is shut down |
| `MCSession` | composition | `SessionStore`, and `SessionProps` for the requests of one of its sessions |
| `MCMessage` | composition | a message is received (`RequestParser`), sent (`ResponseHeaders`) or is one of the texts in it |

Operators that start with the words "Mutant" in their comment are no part of
the models: each is a version of the definition after it with a plausible
mistake, and shows that the property named with it in `PROJECT.json` notices it.

Most modules with state declare their variables' types as `TypeOK` (or `ParserTypeOK`,
`FlowTypeOK`). The run `pam_failures` checks it for `PamChecker`, and `message` for
`RequestParser`, where it holds the bounds of the parser's buffers; both are proved
too, as is the one of `RateLimit`. For the other modules it is at most the first part
of an inductive invariant, and no run lists it.

Variables under "observed only" record history that a property needs, such as
`overlap` (have two requests of the session run at the same time?) in
`LoginFlow` or `raced` in `SessionStore`. No guard reads them, but for `strayed`, where a
behaviour ends.

## Runs

Bounds are constants of the modules; each is named in its module and chosen as
the smallest that lets the interesting cases happen.

| run | shows | bounds |
|---|---|---|
| `pam_failures` | with the helper failing to start, stalling in a PAM module, crashing or being killed at any point: no login succeeds unless PAM accepts the first lines of its name and its password (`NoFalseAccept`), while the helper works `check()` returns exactly PAM's verdict on these (`RightAnswer`), at most one message is in the pipes (`Lockstep`), the thread reads the credentials in the slot only while their owner waits (`SlotLent`), and a login comes back without a timeout unless the helper dies or stalls (`ReturnsWhileAlive`) | two workers, which is what it takes for one to get the other's answer; two users PAM knows, one without a password, and one it does not know, whose name has a second line that it does know; a good and a bad password, and one made of both. Deadlock is not checked: a worker may wait for ever once the helper is dead. |
| `pam_timeout` | the same with cancelled jobs: every login that has got `authlock` comes back or is stranded in one of the ways `Stranded` lists, behind a helper that died or stalls and with its one interrupt spent (`LoginReturns`), and shutdown ends unless the helper stalls (`ShutdownCompletes`) | one user and one password |
| `pam_cancel` | violation of `NoFalseAccept`, see findings | as `pam_failures`, helper alive |
| `rate_window` | the rings implement `WindowLimit` (refinement), and no id is granted more than its limit in a window shorter by less than a tick (`AtMostRounded`) | two limits, one of them with ticks longer than a second; a small range of ticks instead of 2^16, long enough for the ring to turn around |
| `rate_stale_clock` | violation of `AtMostRounded`, see findings | two threads |
| `auth` | whoever is logged in for a realm was accepted by a checker of it in this session (`UserWasChecked`), and in any time shorter than the period by less than a tick the checkers refuse at most one login more than the limit (`AtMostOneMore`). Before that, the configuration: the service runs as the user and group the command line says, or else the file (`RunsAsTold`); with limits that fit 16 bits, valid ones for realms and no list given more than it has room for, nothing brings the service down and every limit in effect limits something (`LimitsInEffect`); each realm has the checkers of its last line and, if it has one line, its own limits in order, and all checkers are registered (`RealmsAsConfigured`); each server is started with the settings of all its sections (`ServersAsConfigured`) | three realms with shared and private checkers; a period of three seconds that two counters make, so that ticks are longer than a second. Room for two limits in a list and for three checkers in a line, which a file can fill and exceed. Four kinds of files, each with the lines that interact: four words and lines with global options, five with realms or servers, and the file of the service. A start that fails or crashes ends, hence no deadlock check. |
| `login` | for requests one after the other: a login is for the realm of its form unless a silent login came between (`FormRealmKept`), a form is accepted once (`TokenOnce`), an error message on a form is about a failed login for its realm, under the name shown with it (`ErrorIsMine`). (The name also stays without a message, after a login or a logout.) | two threads, three realms, two of which share a checker, five GETs and five answers to them. As nothing is claimed of requests that overlap, only two GETs are followed once some have (`OverlapEarly`); threads are exchanged (symmetry). Browsers need not go on, so deadlock is not checked. |
| `login_tabs` | violation of `FormRealmHonoured`, see findings | one thread, three realms, five GETs: a login, a failed login for another realm, and a tab with a form, before the silent login |
| `session` | chains hold no freed record, sweeps and lookups walk them under their lock, and a creation, which walks without it, uses a freed record only in a bucket where it overlapped another change (`ChainsSound`); a session gets lost only if a creation overlapped a change of its bucket (`NotLost`), a sweep takes a touched session from a request only at its maximum age (`HeldUntilOld`), nothing stays idle for longer than `MAXIDLE` and a `CLEANINTERVAL` (`Swept`); no property, user or referrer of a session is used after it was freed unless a form or a login overlapped another request of the session (`PropsOwned`) | two threads, three sessions in one of two buckets, four ticks, and clients that know at most two ids before the last requests; a request lasts at most `MaxStall`, since it is cancelled after 30 s while sessions idle for an hour. The run ends with `MW_Session_done`, hence no deadlock check. Of one session, five requests on two threads: a check, a form, a login and a logout have to come first before one that can misuse what they left. |
| `conn` | no object is used after it was freed (`MemorySafe`), and everything is released in the end, unless the client goes on sending for ever, as any data starts the idle timeout anew, or the pool never gets through with the job (`AllReleased`) | three requests on the connection, bodies in up to three pieces; a client may send other data without a bound. The ratio of the two timeouts is below one as in the code |
| `conn_timeout` | violation of `TimeoutIsAnswered`, see findings | as above |
| `message` | a request arrives with exactly its fields (`HeadersWhole`) and the body it announces (`BodyAsAnnounced`), within all buffers; the head of a response fills its buffer exactly (`BufferExact`) and announces the length of the body that is sent (`AnnouncedIsSent`). Texts: whatever the client sends, the first trusted entry is the one the outermost trusted proxy appended (`ClientCannotChoose`), and well-formed lists are read in order (`ListedInOrder`); an address is read as RFC 4291 says, and its text reads back as itself (`AddrMeans`), a prefix matches by its bits (`MatchesPrefix`); encoded parameters arrive, up to the maximum (`ParamsRoundTrip`), what a form says is UTF-8, and nothing else in it is changed (`FormIsUtf8`); the session id is found behind other cookies (`CookieComesBack`); a template is its text with values in place of names (`TemplateMeans`), and an escaped value holds no markup (`EscapedIsInert`) | three header lines, four names in two buckets, values of up to three bytes, bodies of up to two, three fields or bodies put by handlers. Texts of four to six pieces, by kind, from alphabets that hold every symbol the format treats specially and one or two it does not; small maxima, so that they are exceeded. Lists of proxies are also made of whole entries with two different addresses (`xffEntries`, `fwdEntries`), up to six in up to six fields, with room for three fields and four addresses: so the ring wraps, at any place, and the last address taken is in the middle of a field or at its end. Addresses have four words of two bytes of two bits. A message ends, hence no deadlock check. |

*Fairness.* `PamChecker`: the scheduler runs every thread and process that can
go on, signals are delivered, and PAM decides unless it stalls; nobody has to
log in, cancel or kill. `TimeoutSpec` adds that the timeout of a job sends its
signal to the worker, once (`Interrupt`). Where it hits is open: a `sem_wait()` fails,
anywhere else, `pthread_mutex_lock()` included, it is lost (`InterruptLost`), and
nothing else is assumed of it. `HttpConnection`: the event loop handles every
event and timer; neither the client nor the pool need do anything at all, and a
pipeline need not end, as it waits for mutexes, which the timeout of its job does
not interrupt.

## Findings

- `pam_cancel`: a `check()` whose `sem_wait()` is interrupted leaves its
  response in the semaphore, and the next login takes it for its own. A wrong
  password succeeds (`cred/pamchecker.c:266`).
- `rate_stale_clock`: `RateLimit_check()` reads the clock before it takes the
  mutex; the later thread with the earlier time turns the ring once around
  (`ratelimit.c:113`).
- `login_tabs`: a silent login in a second tab changes the realm of the session
  and keeps the token of the first tab's login form valid: the credentials entered
  there are checked for the other realm (`handler/login.c:175`). In the trace, the user
  is logged in for a realm, failed to log in for a second one that has the same
  checker, gets the login form of a third, and asks for the second again, where
  he is then logged in silently; the form of the third is sent and checked for the second.
- `conn_timeout`: a request that times out is logged with the response of its
  context, which is null or was just destroyed (`httpserver.c:227`). The idle
  timeout of the connection comes first unless data arrives meanwhile.

Other differences between code and documentation, or surprises, which the
models contain and the properties take into account:

- Name and password are ended by newlines on the pipe to the helper, which a form
  value may hold itself, and the helper reads the first line of each
  (`cred/pamchecker.c:116,125`, `src/src/libexec/swad_pam/main.c:33,77`). So a
  password of several lines is accepted if PAM accepts its first line, and a name
  likewise. `NoFalseAccept` and `RightAnswer` are about the first lines, which is all
  that PAM sees.
- The tests for a full list of limits compare a number of entries with a size in
  bytes, so that one more than the 8 that fit (`swad.conf.sample.in:46`) is not ignored,
  as the message there says, but written past the array: for a realm over its first
  limit and part of the pointer to its first checker (`config.c:285,489,502`). The ones
  for checkers in line 308 and for arguments of a checker in line 232, which is
  not modelled, are of the same kind. The model goes to the phase "undefined" there.
- Of the seconds of a limit, documented as "in the range [1-86400]"
  (`swad.conf.sample.in:48`), 16 bits are kept: 65536 become 0, by which swad divides
  when it starts (`config.c:149`, `ratelimit.c:155`), and more than that a much shorter
  time. `LimitsInEffect` and `RealmsAsConfigured` are about numbers that fit.
- The limit of failed logins is tested after the checkers were asked, so that
  one login more than the limit is performed (`authenticator.c:243`;
  `swad.conf.sample.in:66` says "when it is reached, no more logins are
  performed"). `AtMostOneMore` states what holds.
- With more than 512 seconds a counter of the rate limiter covers several
  seconds (two for the 900 of failed logins), and the window is shorter than
  configured by up to one counter. `AtMostRounded` and `AtMostOneMore` state what holds. An id that comes back exactly 2^16 ticks
  later, with no other id checked since, is still charged with its old counts.
- A realm that `GET /` left in the session wins over the realm that is asked
  for with the login form (`handler/login.c:165`).
- Two requests of a session at the same time can use a token twice, and change
  the realm under each other. The properties of `login` say "unless `overlap`".
- When the helper dies after a request was submitted, or stalls, the worker waits,
  with `authlock` held, until its job is cancelled (`cred/pamchecker.c:266`), although
  `check()` has a message for this case (`cred/pamchecker.c:243`). If the one signal
  of the cancellation was spent before `sem_wait()`, while it waited for `authlock`
  (`authenticator.c:202`), it waits on, and all logins with it.
- A body that arrives in several chunks is stored with each chunk over the one
  before (`http/httprequest.c:200`). `BodyAsAnnounced` is about one chunk.
- A session can be deleted between its lookup and its touch when it is just
  about to expire (`middleware/session.c:284`).
- A form or a login at the same time as another request of the session can free
  what that one uses: the table of logins is created twice
  (`authenticator.c:100`), a user is deleted by a logout (`authenticator.c:139`),
  the referrer is freed twice (`middleware/session.c:319`). `PropsOwned` says
  which requests may overlap.
- `HttpResponse_createRedirect()` tests `status <= 300 && status < 400`
  (`http/httpresponse.c:176`), so that the login's 303 has no `Location`, and
  `HttpResponse_setVersion()` does not set the version (`:216`).
- A limit of a realm that is refused with "ignoring" is counted all the same, with
  values that were never set (`config.c:291-297`).
- An unknown `user` in the file is only a warning, and the service keeps running
  as who started it; a `group` after `user` has no effect, as the user's
  own group was taken already (`config.c:431,467`).
- A realm that is said twice keeps the checkers of the second time and loses its
  limits, which all go to the first (`config.c:271`, `authenticator.c:331`). An invalid `nat64_prefix` removes a
  valid one before it. `pidfile` is set and also reported as unknown
  (`config.c:474`). `-p` is listed as a flag that may be given once, but not
  handled, so that it is an argument (`config.c:687`).
- In `Forwarded`, a quoted `;` starts a new component (`proxylist.c:90`); an entry
  that is empty or bad ends the list there, as does an empty field.
- An IPv6 address may end in `:` and have too few words; the last run of zeros is
  left out, not the longest. `IpAddr_matches()` compares the unused bytes of an
  IPv4 address, which start with twelve zeros (`ipaddr.c:229`); nobody asks.
- Percent codes need upper case digits, and `%00` ends a text. An `&` at the end
  makes one more parameter in a query but not in a form. `;;` ends the list of
  cookies (`middleware/cookies.c:65`), and a `Set-Cookie` is cut at 1024 bytes
  while 4096 are tested for (`:90`).
- `prng()` in `random.c:29` calls itself with its mutex held. It is only used
  when the system gives no random bytes, and not modelled.

## Proofs

| module | theorem | statement | assumptions |
|---|---|---|---|
| `PamChecker_proofs` | `TypeCorrect` | `Spec => []TypeOK` | `PamAssumption` |
| | `NoFalseAcceptCorrect` | `~MayInterrupt => (Spec => []NoFalseAccept)` | |
| | `SlotLentCorrect` | `~MayInterrupt => (Spec => []SlotLent)` | |
| | `LockstepCorrect` | `~MayInterrupt => (Spec => []Lockstep)` | |
| | `RightAnswerCorrect` | `~MayInterrupt => (Spec => []RightAnswer)` | |
| `RateLimit_proofs` | `TypeCorrect` | `Spec => []TypeOK` | `RateAssumption` |
| | `AtMostRoundedCorrect` | `CallerLock => (Spec => []AtMostRounded)` | |
| | `ImplementsWindowCorrect` | `CallerLock /\ ShortRun => (Spec => ImplementsWindow)` | |
| `Authenticator_proofs` | `UserWasCheckedCorrect` | `Spec => []UserWasChecked` | `AuthAssumption` |
| | `AtMostOneMoreCorrect` | `Spec => []AtMostOneMore` | |
| `LoginFlow_proofs` | `FormRealmKeptCorrect` | `FlowSpec => []FormRealmKept` | `AuthAssumption`, `FlowAssumption` |
| | `TokenOnceCorrect` | `FlowSpec => []TokenOnce` | |
| | `ErrorIsMineCorrect` | `FlowSpec => []ErrorIsMine` | |
| `SessionStore_proofs` | `ChainsSoundCorrect` | `Spec => []ChainsSound` | `TableAssumption`, `TimeAssumption` |
| | `NotLostCorrect` | `Spec => []NotLost` | |
| | `HeldUntilOldCorrect` | `MaxIdle >= 2 * MaxStall => (Spec => HeldUntilOld)` | |
| | `SweptCorrect` | `MaxStall <= MaxIdle /\ CleanInterval > 0 => (Spec => []Swept)` | |
| | `PropsOwnedCorrect` | `PropSpec => []PropsOwned` | none |
| `HttpConnection_proofs` | `MemorySafeCorrect` | `Spec => []MemorySafe` | `ConnAssumption` |
| `Message_proofs` | `ParserTypeCorrect` | `ParserSpec => []ParserTypeOK` | `HeaderAssumption`, `ParserAssumption` |
| | `BodyAsAnnouncedCorrect` | `ParserSpec => []BodyAsAnnounced` | |
| | `HeadersWholeCorrect` | `ParserSpec => []HeadersWhole` | |
| | `BufferExactCorrect` | `HeadFits => (RespSpec => []BufferExact)` | `HeaderAssumption`, `RespAssumption` |
| | `AnnouncedIsSentCorrect` | `HeadFits => (RespSpec => []AnnouncedIsSent)` | |
| `Startup_proofs` | `LimitsInEffectCorrect` | `ServiceSpec => []LimitsInEffect` | those of `Config` and `Startup` |
| | `ServersAsConfiguredCorrect` | `ServiceSpec => []ServersAsConfigured` | |
| | `RunsAsToldCorrect` | `ServiceSpec => []RunsAsTold` | |
| | `RealmsAsConfiguredCorrect` | `ServiceSpec => []RealmsAsConfigured` | |

The assumptions are the ones the modules state of their constants: bounds are
numbers, special values are no members of the sets they are special in, a hash
maps names into its buckets, the memory for sessions is finite, words are
sequences of flags. Each of the hypotheses is what the code does:

- `~MayInterrupt`: no job is cancelled while it waits for PAM. It is cancelled
  after 30 s, and then the theorems fail (finding `pam_cancel`).
- `CallerLock`: one thread at a time calls `RateLimit_check()`. That is so for
  the authenticator, which holds `authlock`, but not for sessions (finding
  `rate_stale_clock`).
- `ShortRun`: the clock stays below 2^16 ticks. A tick that comes back is charged
  with its old counts, so that the rings grant less than the window would;
  `AtMostRoundedCorrect` needs no such hypothesis, for that is the safe side.
- `HeadFits`: there is an `s` such that each field takes at most `s` bytes, and
  `MaxPuts + 5` fields (those of the handlers and the five of the server) take less
  than 65536 together. `HeaderSet` counts bytes in 16 bits (`headerset.c:26`), so
  that a longer head would wrap the size the buffer is allocated with. The fields
  of swad are short texts of its own, cookies cut at 1024 bytes, and a `Location`,
  which a received field brought in at most 8191.
- `MaxIdle >= 2 * MaxStall`, `MaxStall <= MaxIdle` and `CleanInterval > 0`: sessions
  idle for an hour, requests last 30 s, `CLEANINTERVAL` is 15 minutes.

*PAM checker, type correctness.* What the thread writes to the pipe comes from
the slot, which is empty at first, so that `TypeOK` alone is not inductive.
`TypeInv` adds `SlotSet` (a pending request, or a thread that serves one, means
a filled slot) and `CredSet`.

*No false accept.* `NoFalseAccept` talks of what `check()` returned, several
steps after PAM decided. `SafeInv` follows the answer on its way. `OneHolder`:
only the owner of `authlock` is inside `check()`. `OneToken`: a request turns
into a busy thread and then into a response; there is at most one such token,
and only while a worker waits for it. `SlotIsMine`: as long as it waits, the
slot holds its own credentials. `Dialogue`: the contents of the pipes, and where
the helper is, for every place of the thread, with a `1` in the pipe only for
credentials whose first lines PAM accepts. `OkMeans`: what `ok` stands for on the way from thread to
worker. An interrupted worker breaks `OneToken`, which is the finding of
`pam_cancel` and the reason for the hypothesis `~MayInterrupt`; the death of the
helper at any point does not.

*Slot lent.* The thread reads name and password through pointers into the memory
of the worker. `SafeInv` says that a thread that serves a request has a worker
that waits for it, but it does not say so of shutdown, which wakes the thread up
by a request without an owner. `Quiet` adds it: once shutdown has begun, the
thread neither talks to the helper nor has a request to take up, but for the one
that tells it to stop.

*Lockstep and right answer.* `LockInv` adds `Pipes`, what may be in either pipe
at each place of the thread once the helper has ended or shutdown has begun, and
`OneMessage`. `Verdicts` is the other half of `OkMeans`: as long as the helper
lives, an `ok` that is false stands for credentials PAM refused.

*Rate limiter.* The ring of an id `Covers` what it was granted: each counter holds
at least the grants of the seconds of its tick, and an id without an entry (or
with one that expires) was granted nothing in the window (`Idle`). `Counted` says
so for all ids, which needs sums over a ring of any length, and how `Turn` moves
the places of a ring when a tick begins, past the wrap of 16 bits. For the
refinement, `Exact` says that each counter holds just the entries the log of
`WindowLimit` has for its tick. `Sound` (`total` is the sum of the ring, and
within the limit) holds with racing callers too, and keeps the counters from
underflow.

*Authenticator.* `AuthInv` strengthens `UserWasChecked` by the origin of every
user: `OwnChecker` says that whoever is logged in for a realm comes from a
checker in the stack of that realm, which is what a silent login into another
realm preserves. For `AtMostOneMore`, `LimitInv` compares what the limiter counts
with what the checkers refused, in each stretch of time that lies within the ticks
a ring covers: the checkers are at most one refusal ahead, and none in the stretches
that go on as long as the name is not blocked.

*Login.* `FlowInv` says, unless requests have overlapped (`OneByOne`), that at most
one thread is at work (`Alone`), that what was noted of finished requests is in
order (`Past`), and that what the one at work has read from the session still
stands at each of its accesses (`Fits`): the realm it has chosen is the one in the
session, the form whose token is valid is one for that realm unless a silent login
came after it, and an error in the session is that of a failed login for that realm
under the name that is stored with it.

*Session store.* Every record of a chain has one predecessor, and there is a rank
that grows along each chain (`ChainRanks`) and along the part of it that a sweep
still walks (`SweepRanks`), also when a creation cut that part off. So a walk
ends, and each step keeps the rank of the records there were. For `NotLost`,
`LossInv`: in a bucket nobody raced for, each live record is attached to another or
to the head, a creation has read the end of the chain or is on the way there, and a
sweep is where the chain led it. A creation that stands on a record that was given
back is in a bucket that was raced for, so that `strayed` needs no other claim.
For `HeldUntilOld`, `Recent` bounds the age of every
time a step has read by `MaxStall`. For
`Swept`, `Cleaned` says of each bucket that the last sweep is yet to reach it, or
that every record its head leads to was looked at by that sweep or is newer. The
step that could break it is a sweep that deletes a record and links one that a
creation had cut off: it holds the lock of the bucket, so it is the last sweep or
the last one is yet to come.

*Properties of a session.* An access is safe because of what the accesses before
it have done, so the invariant is about what is left of a request. A fact says that
the pointer got for a key is not gone, that somebody is logged in, that the
request has got a user, or that the referrer is not gone; `Leads` is what an
access needs and leaves of these. `Orderly(L, F)`: the list `L`, begun with the facts
`F`, finds what it needs at each access, on every way the authenticator may have it
go on; it is defined by a set of lists and facts that no access leads out of, as a
list needs no bound then. `Sure(L, N)` collects the
fewest facts of each handler, from its end to its beginning: nothing but the
referrer for the lists a request begins with. `OwnedInv` says of the objects that
no property but the referrer points to one that is gone, and of the threads that
one request is `Alone` with facts that hold and make the rest of it orderly, or that
only checks run (`Roots`): then each holds the table the session has, and nobody
replaces it, as it is there already or there is one check only. The model has no
bound but `MaxRequests`, which the proof does not use.

*Connection.* `ConnInv` says that a connection is always in one of five phases
(`Unused`, `Receiving`, `Working`, `Sending`, `Gone`), and for each of them which
objects live, which handlers are registered and on whom, and what the job may
still touch; `NamesWaiting` is about the resolver. Every event leads from a phase
to another, or leaves it.

*Receiving.* `Received`: the header set mirrors the fields that are complete
(`Mirrors`: the names in it are the ones that were sent, and the first field of
each name is the first that was sent), the field that is read is the last one sent,
and a body that is read has the size its first `Content-Length` announces. For
`HeadersWhole`, `FieldsPlaced` follows each field: the list its name is hashed to
holds all complete fields of that list in the order they were sent, so that the
place of a field is the number of fields of its list up to it. An iterator that
starts with `HeaderSet_any()` then skips the fields of other names in the list, and
after as many steps as there are fields of that name up to one it stands on it.

*Response.* `Measured` says that the size and the count of a set are the sums over
all its lists, which adding a field and removing all of a name keep as long as
nothing wraps (`HeadFits`), and `Hashed` that each field is in the list of its name.
While the head is written, the fields written so far are the ones at the places up
to the iterator, each once (`Writing`), and their bytes the sum up to there; when
the iterator ends, that is all of them. `Announced`: in the set is at most one
`content-length`, with the size of the body as it is now, and one if there is a
body; handlers leave that name alone, and `HttpResponse_passBody()` and
`MW_Compress()` change it along with the body. What was sent of the body is always
`sendPos`.

*Configuration and start.* Each of the four invariants (`LimitsInv`,
`ServersInv`, `RunInv`, `RealmsInv`) says what the state is as a function of the
words and lines read so far, for a file of any length and lists with room for any
number (none of them says anything of the phase "undefined", which a line too many
leads to): the settings of a server
are the ones the lines of its sections give, flags got the arguments that
follow them in order, each once, and the realm of a name is made of its
lines. `prestartup()` then registers in the order of the lists.

*Recursion.* Walks along chains, sums over sets, and the table of flags are
recursive functions in the models. What the theorems need of them is proved by a
least counterexample among numbers (such as the first place of a
walk that is repeated), as the induction theorems of the library cannot be
instantiated.

Only model-checked are:

- the liveness properties (`ReturnsWhileAlive`, that every login returns and
  shutdown ends, `AllReleased`), as fairness and `ENABLED` are out of the
  prover's reach;
- what the functions on texts compute, each against a reference definition that
  is recursive over the text as well.

## Not modelled

- `random.c`, `base64.c`: to all callers a new value each time, and that is what
  the models take it for. `util.c`: growing strings and hash values.
  `mediatype.c`, `http/httpstatus.c`: constant tables.
- `src/tools/bin2cstr`: runs when swad is built.
- Of modelled parts: the properties of a context and the list of middlewares,
  which one worker uses alone; the table of variables of a template and of
  cookies to set, likewise; the name of the configuration file, `-f`, `-v` and the
  arguments of a checker, which are stored and passed on; the array of these arguments
  (`config.c:232`) and the buffer for a single entry (512 bytes in `parseEntry()`);
  what a write past an array of limits or checkers changes; HTTP/1.0.
- Paths no pipeline of swad takes: a handler that sets no response
  (`handler/login.c:190`, `handler/root.c:26,35`) or replaces one that is set. Cookies,
  session and path parser come before every handler (`main.c:31-45`), and whoever sets
  a response (`middleware/session.c:296`, `middleware/csrfprotect.c:46`, the handlers)
  returns without calling the next.
- Everywhere: log messages, HTML, failing memory allocation (swad aborts).

## Plan

Done: `PamChecker`, `RateLimit` with `WindowLimit`, `Authenticator`, `LoginFlow`
which composes it, `HttpConnection`, `SessionStore` with `SessionProps`, `Config`
and `Startup` composed with the authenticator, the messages with all texts in
them.

Proved: the invariants of the checker, the limiter with its refinement, the
authenticator, the login, the session store and the properties of its sessions, the
connection, the messages, both received and sent, and the configuration.

Left are lemmas about single functions on texts.
