# ProxyZ: a verification development

ProxyZ is a tunnelling proxy in Go. A *server* runs tunnels (tls, kcp, quic),
each on a port of its own, and an HTTPS interface that hands out their
configurations. A *client* fetches configurations, keeps a set of multiplexed
sessions to the tunnels and serves SOCKS5, HTTP CONNECT and DNS to local
applications. This directory holds TLA+ models of its concurrent core, the TLC
configurations that check them and TLAPS proofs. `PROJECT.json` lists the
runs, the source lines of every definition, the hazards and the theorems.

## Inventory

| Part | State | Operations | What makes it correct |
|---|---|---|---|
| Tunnel registry (`servercontroll/proxy_release.go`, `all_servers.go`) | `Tunnels`, `lastUse`, `ErrTypeCount`, `lock` | `/proxy-get`, `/proxy-err`, `/proxy-new`, `/proxy-del`, `/__close-all`, `/z11-update`, nightly refresh | no tunnel twice, none reordered, none answered that was never started, every request answered, ended tunnels leave |
| Tunnel goroutine (`connections/base/proxytunnel.go`) | `On`, listener | `Start`, `Server`, the deferred clean-up | `On` says whether it serves |
| Ports and firewall (`connections/base/base*.go`) | bound ports, open ports | `GiveAPort`, `OpenPortUFW`, `ClosePortUFW` | one tunnel to a port and transport |
| Transports (`protls`, `prokcp`, `proquic`, `prosmux`) | listener, live connections per address | accept loops, `TryClose`, `DelCon` | stop when told to |
| Proxied connection (`prosocks5`, `controll.go`, `proxytunnel.go`) | program counters of two goroutines, bytes read and written | handshake, request, dial, confirmation, relay | the host asked for is the host dialled; success is reported only after the dial; both ends are released |
| Profile pool (`controll.go`) | channel `proxyProfiles`, `initProfiles`, `lock` | `GetAviableProxy`, `RebuildSmux`, `ErrSoGetNew`, `ReportErrorProxy`, `AutoSwitchProfile`, `ChangeProxyType` | no profile is lost or counted twice, nobody blocks with the lock |
| Sessions (`controll.go`, `prosmux`) | `SmuxClients`, `lastUse` | `GetSession`, `RebuildSmux`, `InitializationTunnels` | streams are opened on live sessions of the current route |
| Error accounting (`controll.go`) | `errorid`, `ErrCount`, `RouteErrCount`, `ReportingMark` | `ErrRecord`, `ErrVanish`, `ReportErrorProxy` | the thresholds see real errors |
| Route life cycle (`controll.go`, `deploy/httpcontroll.go`) | `closed`, `closeFlag`, `IsRunning`, `IsBreak`, `Addr`, listener | `Socks5Listen`, `TryClose`, `ChangeRoute`, `ChangeNextRoute`, `Init` | one loop serves, on the route asked for last |
| DNS service (`prodns`) | `domainsToAddresses`, `ip2host`, query counters | `ServeDNS`, caches, `Clear` | answers are for the name asked, not past their time |
| Deployment service (`deploy`) | `Routes`, `ClientConf`, `cacheRoutes` | login, switch, route tests | |
| Router mode (`router/r.go`, `deploy/httpcontroll.go`) | the file of rules, the loaded rules, the process redsocks, `ST`, `LAST_USE_LOCAL_ADDR` | `StartFireWall`, `StopFirewall`, `CheckStatus`, the look every 30 s | stops and starts when told to; rules never redirect for long to a redsocks that does not run |
| Self-update, geography, tests, uploads, key generation, web assets | none of their own | | not modelled: input and output |

The client talks to the registry by `POST /proxy-get` and `/proxy-err`, and to
a tunnel by a stream of a session; the goroutine of a stream on the server
knows nothing of the registry. On the client the pool, the sessions and the
error counts share one lock; the flags of the route life cycle have none.

What is hard here is not computation. Handlers of the registry run on
goroutines of their own and hold its lock only around parts of what they do;
the client's goroutines poll, sleep, and block on channels, some while they
hold the lock; requests are parsed from TCP segments of any size by two
parsers that must agree; and every connection can break at every step. The
hazards in `PROJECT.json` list the places.

## Modules

| Module | Models | Lines of the code |
|---|---|---|
| `TunnelRegistry` | registry, handlers, tunnel goroutines, ports | one action per LockArea or unlocked access |
| `TunnelBook` | what the registry promises: an order-of-arrival book | abstract |
| `Exchange` | what a proxied connection promises: request, dial, answer and relay once each, in this order | abstract |
| `ProfilePool` | the pool of profiles | one action per LockArea, channel operation or HTTP call |
| `ProxyStream` | one proxied connection, both goroutines | one action per read, write or dial |
| `ClientRoute` | the route life cycle of the client | one action per access of a shared flag |
| `ClientSessions` | the list of sessions and who rebuilds it | one action per access of shared state |
| `ClientErrors` | the error counts, reports and replacements | one action per LockArea, unlocked read or HTTP call |
| `RouterMode` | the router mode of the client | one action per shell command |
| `MCTunnelBook`, `MCProfilePool`, `MCClientSessions`, `MCClientErrors` | symmetry, the refinement and a check of a helper for TLC | |
| `TunnelRegistryProofs`, `ProfilePoolProofs`, `ProxyStreamProofs`, `ClientRouteProofs`, `ClientSessionsProofs`, `ClientErrorsProofs`, `RouterModeProofs` | theorems | |

**TunnelRegistry.** A goroutine is a request handler or a server goroutine
forked by `Start`; `pc` names the next LockArea or unlocked access. `registry`
is `Tunnels`; a tunnel stands for its ID, port and type. `stuck` records that a
goroutine panicked in `LockArea`, which has no deferred unlock: net/http
recovers the goroutine and the lock stays held. `DelProxy` is five steps: the
unlocked range (the slice header is read once), the unlocked read of the error
count, its locked write, `ClosePortUFW`, and the locked store of the filtered
copy. `gs.List` is external: `Nth` out of range may return nil or panic, and
both are modelled; `Sort` is taken to return a copy. The comparison of two
tunnels' live connections is a free choice. `TryClose` has no effect, because
the `break` it leads to leaves only the `select`. The three map reads of
`NewProxyByErrCount` are one step. Requests are served once. `/proxy-del` and
`/proxy-err` assert the types of what their bodies hold without a check and
panic on a body they do not expect (`BadBody`): outside the lock, and with no
deletion before. `shut` is history: the tunnels whose port `DelProxy` shut.

**ProfilePool.** A profile is a unit: the pool's control depends on how many
there are and, for `ReportErrorProxy` and `AutoSwitchProfile`, on whether the
one received has the ID looked for, which is a free choice. `holder` is the
goroutine that sends into the channel inside a LockArea. The module covers the
time between two calls of `Init`, and leaves the error counts out.

**ProxyStream.** Bytes are counted, not named. `req` is the request: what the
application speaks, the address type, the length of the name, and whether it
sends bytes behind the request. `command` says that the host `GetLocalRequest`
returned is a command to the client, which it is only if the first read brought
its prefix. `answer` is what the server wrote. The client's one read of it may
bring something else than the confirmation, a part of it or the DNS reply to a
SOCKS host that is a query: then the relay starts and the application is told
nothing (`Confirm`), so `Exchange` promises of a SOCKS application only that what
it is told was confirmed. The relayed payload, the counters of
live connections and the multiplexer's framing are left out. A host with the
prefix `R://` cannot reach the server's branch for it: only address type 9
keeps a host without the port's colon and brackets, and no client sends it.
`ClientEnd` and `ServerEnd` say how far each end is in `Exchange`; an end that
holds the stream where its program counter says it should not, or has let go of
it early, is "lost", from where `Exchange` has no step.

**ClientRoute.** `closed`, `closeFlag`, `IsRunning`, `IsBreak` and `Addr` are
written by whoever changes the route and have no lock, so that each access is a
step. `Socks5Listen` raises `closed`, builds, binds, lowers `closeFlag` and
`closed`, raises `IsRunning` and loops; `ChangeRoute` polls `closed`. A change
comes from a login, from a switch (refused unless `IsRunning`), from the
starter after a broken start, or from an accept loop whose errors mounted. The
starter of a switch without a host has an endless loop of its own (`Tries`).
The listener of a loop that ended keeps the port until `Collect`. `Listen` fails
here because the port is in use; on any other error the program exits
(`log.Fatal`), which is left out. `crowded`
records that a change was asked for while another was under way: nothing in the
code prevents it, and it separates what the flags guarantee always from what
they guarantee only for changes that wait for each other. A route stands for
whoever asked for it.

**ClientSessions.** `slot` is `SmuxClients`, where 0 is nil and a session has a
number of its own. Only stores and the round robin have the lock, so that each
unlocked read, each `Close` and each of the two stores of a LockArea is a step.
A session is `closed` by the client or `gone` with its connection; `about`
says of which profile it is. `crowded` records that two requests were in
`GetSession` at once, `overlapped` that two goroutines replaced the entry of
a session at once, `straddled` that a rebuild was under way when a change of
route cleared the list, `rivalled` the requests during which another goroutine
was under way, `dialFailed` those one of whose own dials failed, and `met` the
dead sessions a request gave up on. The profiles are those of `ProfilePool` without their
number, the change of route is that of `ClientRoute` without its flags.

**ClientErrors.** The channel is a bag of profiles by tunnel ID, because
`/proxy-get` goes round the tunnels of a server and several profiles share one.
A hunt, the loop of `ReportErrorProxy` or `AutoSwitchProfile` that takes
profiles and puts back those it does not want, is the step that meets a wanted
one. Errors may come under an ID that is replaced already. `todo`, `seen`,
`robbed`, `failed`, `charged` and `drift` are history: which profiles a hunt
may still rely on, whose report failed, and which errors were subtracted twice.
What the model shows of the code: a report that takes two profiles of one ID
leaves another of its IDs hunted by nobody and marked for ever; an ID that
failed is never reported again; `errorid` of a replaced ID stays, so that its
errors can be subtracted again. `ChangeProxyType` empties the channel and then
drops `confNum` profiles that it fetches, or takes from the channel when others
fetch at the same time (`DropProfile`): one more way to rob a hunt.

**RouterMode.** `file`, `nat` and `redsocks` belong to the device, `ST`,
`LAST_USE_LOCAL_ADDR` (`address`) and the routes to the client. `Keeper` is the
goroutine of `localSetupHandler`: it starts the mode and then looks every 30 s;
`Asker` are the handlers. `op` says what a goroutine does and `pc` which shell
command is next. Rules are loaded altogether or not at all. `device` tells the
four kinds of device apart: OpenWrt's init script or none, `LOCAL_PORT` 1091 or
another, for the code greps for 1091 whatever the port is; where neither holds
`StopFirewall` does not unload the rules. `mode` is history: what the last
operation made of the device if none overlapped it. Note that a start of the
client always starts the mode, also one the user stopped.

## Runs

| Run | Question | Bounds | Outcome |
|---|---|---|---|
| `registry_book` | does the registry implement the book, with every handler; when can `GetProxy` panic, when is a serving tunnel marked off, or behind a shut port; is every answered tunnel started, every request answered; do ended tunnels leave | 2 requests, 2 servers, 2 tunnels, 2 ports, all kinds, fair | holds |
| `pool_safety` | are profiles accounted for; how far can the counter overshoot; when does a sender block with the lock | 3 goroutines that repeat any operation, capacity 2 | holds |
| `pool_live` | does the start of the client end | 4 rebuilds, capacity 4, fair | holds |
| `route_calm` | is there one loop, on the route asked for last, is every `TryClose` heard, does each change end | a login, 2 switches, a loop change, not crowded, fair | holds |
| `route_crowd` | whatever overlaps, is there a loop at rest, and is a switch admitted | a login, a switch and the starter | holds |
| `route_broken` | can a next route be tried after a broken one | | violated: every switch is refused |
| `stream` | do the two parsers agree, under every cut of the request; do the two goroutines implement `Exchange`; are both ends released | lengths 0, 3 to 6, 250, 251, 255, 256, 263, all types, fair | holds |
| `sessions` | what leaves an open connection that nobody lists, crashes the client, leaves a session of an old route, or fails an undisturbed request whose dials succeed | 2 requests, 2 others, 2 of them started, 2 entries, 3 sessions (2 after two requests met), 1 change of route, symmetric | holds |
| `errors` | what becomes of a hunted profile and of a mark; when is `ErrCount` negative | 2 reports, 1 switch, 2 tunnels, 2 copies, 2 errors, 1 change of route, thresholds 0, 0, 1, 0 | holds |
| `router` | does a start or a stop hold; is the network ever cut off for good | 2 handlers, 3 requests, 1 fault, 4 kinds of device, fair | holds |
| `stream_ipv6` | does the server wait for what an IPv6 request has | | violated: it waits for four bytes more |
| `stream_long_name` | does a name of 251 bytes pass | lengths 249 to 251 | violated: the slice panics |

Two goroutines at one place and a third that moves the state between their
steps are enough for every race named in the hazards; the second tunnel makes
reordering visible and the second port makes sharing possible. In the pool a
capacity of 2 and three goroutines fill the channel, block a sender with the
lock and overshoot. The lengths of names stand at the edges of the code: the
prefixes of a command (4) and of a packed DNS query (6), the sum of bytes that wraps (251), the length
byte (255, 256) and the buffer (263). The longest path through a request
handler is shorter than the bounds on goroutines cut off: `Start` needs a free
server goroutine, so that in `registry_book` two servers suffice for two
requests.

`route_calm` cuts the search where `crowded` rises. It never
falls, their invariants hold of every crowded state by their statement, and
`ChangesEnd` is about the behaviours in which it does not rise, so that nothing
is lost. `route_crowd` needs only two changes beside the starter's own to have
two `Socks5Listen` overlap while a third waits; `ClientRouteProofs` covers any
number.

In `sessions` two goroutines may start, of either kind, and a third actor is
the connection that dies. Three sessions let a rebuild fill an entry before a
request that then meets two dead sessions and builds a third: the way
`FailNeedsTwoDead` is about. Where two requests met in `GetSession` the search is
cut at the third session (`TwoIfCrowded`): the exceptions that the properties name
all show with two, and the proofs have no such bound. Requests are alike and so are the others, so that
`MCClientSessions` takes them for symmetric; the proofs cover any number. The thresholds of
`errors` (4 errors of one ID, 12 in all, 70, and 10 of the route) are constants
and scaled down to 0, 0, 1 and 0: what matters is on which side of each a count
is, and one error or two then reach every branch that a long series of errors
reaches in the client. Two copies of one ID are the fewest that make a report
take both, and two IDs the fewest that leave another one out. `router` needs a
login before any other request, so that three requests are the login and two
that overlap with each other and with the keeper.

**Fairness.** `registry_book` assumes weak fairness of every goroutine's own
steps and nothing of arrivals or accept errors: Go schedules every runnable
goroutine. `pool_live` assumes strong fairness of each goroutine, because its
steps compete for one mutex: Go's mutex hands over to a waiter that starves.
`stream` assumes that goroutines that can run do, that dials return and
that read deadlines pass; a relay ends surely only once the other side is gone.
Of the client's `Connect` nothing is assumed: `ConnectRemote` may rebuild a
session and then wait for ever for a profile of the pool, so that `HandlerEnds`
excepts a handler that waits there.
`route_calm` assumes weak fairness of every goroutine, of the dial of
`TryClose`, and of the garbage collector, which Go runs at least every two
minutes; nothing is assumed of the connections of applications, and building
the tunnels may fail each time. `router` assumes that the keeper's endless loop
goes on and that every shell command returns; nobody has to ask for anything,
and requests and faults cease. `sessions` and `errors` check safety only.

## What is proved

For any sets of goroutines, tunnels and ports, any capacity, and any lengths of
host names (the named ASSUMEs are all that is assumed of the constants):

* `TunnelRegistryProofs`: the type invariant; the registry implements
  `TunnelBook`, whose list is in order of arrival without a tunnel twice; no
  panic of `GetProxy`, and no lock lost, before a deletion; failure counts never
  exceed failures; a serving tunnel is off only after two starts, and behind a
  shut port only if `DelProxy` shut it or another server goroutine for that port
  ended; each answered tunnel was started.
  The order needs the invariant that a goroutine's snapshot is in order too,
  and that a tunnel about to be added is in no list and no snapshot. The
  refinement maps `Append` to `List` and the store of a copy to `Rewrite`.
  On a list in order `Without` drops its one entry and nothing else
  (`WithoutElems`), so that whatever a `DelProxy` overwrites, it stores its
  snapshot without its victim (`StoresTheFilter`), and the last act of a server
  goroutine takes its own tunnel off the list (`EndTakesOffTheList`, with
  `OwnInv`). `EveryStepCounts` gives each goroutine a number of steps it has
  left at most (`Left`: 11 for `GetProxy`, 6 and 5 for each ID of a deletion),
  which each of its steps lowers and nobody else raises.
* `ProfilePoolProofs`: the type invariant; the account
  `initProfiles + stray = pool + |busy| + gone`; a blocked lock needs an
  overshoot; the overshoot is below the number of goroutines. The last needs
  the count of goroutines between the test and the increment. Likewise the
  counter is below zero by less than that number, and the profiles that exist
  or were dropped uncounted are bounded (`FetchesBounded`). When no more
  goroutines than profiles rebuild once, as at the start of the client, nobody
  polls in vain or blocks with the lock (`StartNeverBlocks`).
* `ProxyStreamProofs`: the type invariant (a SOCKS request fits the buffer);
  the request is forwarded whole and nothing behind it; the host dialled is the
  host asked for (for names of up to 255 bytes, which fit the length byte);
  success is told only after a dial. The invariant has a part
  for the client's parser (`Parsed`), one for the server's (`Served`), one for
  who answers (`Answers`) and one that ties the two goroutines (`Unopened`).
  With `Ordered`, which says when an end holds the stream and when an answer is
  there, the goroutines implement `Exchange`: nothing is dialled before the
  request is whole, confirmed before the dial, relayed before the answer, or done
  by an end that has ended, and each happens once. Of the two findings: no IPv6
  request is ever dialled or answered (`IPv6IsNeverServed`), while for every
  other type client and server never wait for each other in the middle of a
  request (`OthersAreRead`), and only names of 251 to 255 bytes end the client
  (`ShortNamesAreSafe`).
* `ClientRouteProofs`: the type invariant; for changes that overlap in any way,
  a switch is refused only while a change is under way or after a broken route
  (`Undecided`), and a loop serves at rest unless the route broke or there was
  no next one (`Held`, with `Closer`: whoever raised `closeFlag` against a loop
  is still under way, or broke); for changes that do not crowd each other
  (`Alone`), no second loop starts beside one that serves (`Exclusive`), the
  route is the one asked for last (`Latest`), and a change that waits waits for
  a loop that was told to end (`FlagIsHeard`). No loop sleeps in `Accept`
  through a `TryClose`, whatever overlaps (`AcceptIsWoken`): only one loop has
  the port, only `TryClose` raises the flag, and the dial it leaves behind can be
  taken by this loop alone. From these, changes that do not crowd each other
  wait only for a loop that is on its way out or for a listener nobody uses
  (`NoChangeIsStuck`). After a broken route no switch is admitted as long as no
  two changes have ever overlapped (`BrokenIsStopped`, from `Stopped`); after an
  overlap, even one long over, a start that broke and one that ran can leave
  `IsBreak` and `IsRunning` both raised, and a switch is admitted.
* `ClientSessionsProofs`: the type invariant; a session that left the list has
  no open connection but where two goroutines replaced one entry at once, or a
  request dialled a quic session again that somebody had closed meanwhile; the
  panic on a nil entry takes two goroutines at one entry and that past the end
  two requests in `GetSession`, while the third (`err2.Error()` of an error that
  is nil) takes only a connection that died, whose session was made anew and
  closed again, also in a sequential use; no session of an old route but from a
  rebuild that a change of route overtook. The invariant
  `SafeInv` says who holds the lock and which locals a step may rely on
  (`Shape`), that history only rises (`Latched`), where a session is between its
  dial and its store (`FreshInv`), who answers for it afterwards (`HeldInv`),
  and that a read entry is still there unless somebody else is at it
  (`CrashInv`); `ChangeInv` adds which entries a change has cleared already
  (`WipedInv`) and of which route everything else is (`RouteInv`). A request that
  fails although its own dials succeeded and nobody else was under way gave up
  on two dead sessions, whatever others did before it. For this `CalmInv` says of
  such a request what it has in hand, that it met one dead session and is past
  it when it asks again, and two when it fails (`Walk`); it rests on what holds of
  all goroutines: of smux only dead sessions are closed (`Dying`), and a session
  is in one entry only (`Distinct`).
* `ClientErrorsProofs`: the type invariant; a mark that is not of a failed
  report stands for one under way; what a report hunts is in the channel as
  long as nobody robs it. The last needs that no two reports claim one ID
  (`ClaimsApart`), which also has them post different tunnels (`ReportsApart`).
  `ErrCount` is negative only after an error was subtracted twice: until then it
  covers what can still be subtracted, the errors of each ID that no report has
  read and those each report has read (`Balanced`). As a sum that would need
  induction over the IDs; instead these errors are laid side by side, as disjoint
  intervals in `0..ErrCount`, which each step moves, shortens or extends.
* `RouterModeProofs`: the type invariant, and that an operation which nothing
  overlapped holds until the next one. `Lone` says what an operation that is
  alone finds before each of its commands; `Settled` that nobody is past a look
  that found a known mode wrong; `Sourced` that rules come from hosts the
  client knows. `RestartsCan` is the part of `NotCutOff` that needs no fairness:
  whoever finds the mode broken has the address `RestartRouterMode` needs.

Every invariant of a passing run and both refinements are proved. Only
model-checked are the liveness properties (`RequestsEnd`, `EndedIsUnlisted`,
`RebuildsEnd`, `ChangesEnd`, `HandlerEnds`, `StreamReleased`, `NotCutOff`), since
fairness and ENABLED are out of the prover's reach. What they need besides
fairness is proved where it is not immediate: a variant for `RequestsEnd`
(`EveryStepCounts`), who takes the tunnel off for `EndedIsUnlisted`
(`EndTakesOffTheList`), that nobody waits for nobody for `RebuildsEnd`
(`StartNeverBlocks`), `ChangesEnd` (`NoChangeIsStuck`) and the exchange of a
request (`OthersAreRead`), and that the mode can be started again for
`NotCutOff` (`RestartsCan`). Model-checked too is that `Without` equals the
filter of `DelProxy`'s loop (`WithoutIsFilter`): the filter is recursive, hence
needs induction over data; proved is that on lists in order `Without` has the
filter's elements and their order. The findings are violations that TLC
exhibits on an instance; the theorems above say how far they reach.

## Findings

* `stream_ipv6`: `GetServerRequest` waits for four bytes more than an IPv6
  request has, against the comment on the length (`socks5.go:439`).
* `stream_long_name`: a name of 251 bytes or more makes the slice of
  `GetLocalRequest` panic, against the comment on the longest name
  (`socks5.go:444`).
* `route_broken`: the message "this is break, try next !!!" asks for a switch
  that the handler then refuses.

## Plan

What would come next, in this order:

1. `DnsCache`: `ServeDNS`, `ResolveLocal`, `ResolveCache`, `ResolveRemoteOld`,
   `Clear`, the batch sender. Abstract specification: a map from names to the
   last answer within its time. Worth proving: an answer is one the remote gave
   for the name asked.
2. The list of routes and the lock of the route test (`dev_server.go`), as the
   choice of the next route in `ClientRoute`, and two first requests that
   create two clients.
3. A composition of `TunnelRegistry` and `ProfilePool` over `/proxy-get` and
   `/proxy-err`: the profile of a deleted tunnel is given up by the client.

## Not modelled

Self-update, geography, speed tests, uploads and the HTTP/3 side connection
download and call and keep no state that another part reads. The failed-host
set has no reader that changes what the client does. Command-line programs,
key generation and web assets are start-up and data. Multiplexing, TLS, KCP
and QUIC themselves are libraries, seen only as streams that open, carry bytes
and break. The payload of a relay is opaque, and so are formatting and logs.

The caches and batches of the DNS service are left out: an answer that is
stored after the cache was cleared is wrong for at most five minutes, and what
else can go wrong there is Go's fatal error on a map that is read and written
at once, which is left out everywhere. The transports' counts of connections
per address (which `AcceptConn` and `DelCon` keep differently for tls, kcp and
quic) are printed and decide nothing, as are `AliveCount`, `acceptCount` and
`errCon`. Of the router mode the installation of files and the system proxy of
desktops are left out. The JavaScript of the repository is no part of the
program's logic: `leaflet.js` is a map library, `inspinia.js` a theme,
`language.js` a translation script of another project, and
`src/cmds/z-client/main.js` a window around the Go client that starts it and
ends it with the window; the Go sources are what the modules are translated
from.
