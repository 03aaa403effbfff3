# Formal models of p2pt-server

TLA+ models of the server in `src/` (Go, one process: WebRTC signaling, a
WebTorrent tracker, a TURN relay, a broadcast relay, a private Git server, web
push, an admin panel and dynamic DNS), TLC runs that check them, and proofs that
TLAPS checks. `PROJECT.json` is the index: which module models which lines, which
configuration checks which properties, what each finding is and which mistakes
in the code (mutants) each property would notice.

## 1. Inventory

One process, started by `main` (`main.go`). HTTP handlers run on a goroutine
each; the TURN library, the WebRTC library, tickers and readers of sockets run on
their own. Components share a `*Config`, call each other directly, and each
guards its maps with one mutex. Nothing is transactional; five files are kept
(claims, subscriptions, VAPID keys, configuration, certificates).

| component | source | state | operations | what is hard |
|---|---|---|---|---|
| TURN relay ring | `ring_relay.go` | the ring, per port: socket, routes, active list; per connection: closed flag, channel | AllocatePacketConn, CreatePermission, WriteTo, the reader's findTarget and deliver, Close of a connection, Close of the ring | flag, mutexes and a channel are used without one lock over them; uint16 counter |
| WebTorrent tracker | `tracker.go` | swarms, peers | announce, offers, answer, scrape, end of a connection | writes to other peers' sockets under the read lock, without deadline; reconnects |
| PeerJS signaling | `main.go` 98-368 | clients, recentTokens, a mutex per client | registration, replacement, forward, ping, kick, end, token check | two lock levels, late ends of replaced connections, grace period |
| Git claims | `git_server.go`, `git_token.go` | claims, revokedPeers, the claims file | credentials, access, revoke, restore, unlock, delete, load, save | check-then-act over several lock sections, file written in place |
| Broadcast relay | `broadcast_relay.go` | streams, tracks, subscribers | WHIP, WHEP, DELETE, callbacks of the WebRTC library | callbacks that come late and act on an id, objects registered before they are complete |
| TURN monitor, auth | `turn_monitor.go`, `turn_meter.go`, `main.go` | reputations, revocations, sessions | AuthHandler, allocation events, traffic, block, revoke, cleanup, panel | one decision out of several locked looks, times |
| Admin logins | `auth.go` | password, sessions, login attempts | login, rate limit, lockout, logout, change of password, cleanup | the same |
| Web push | `push_manager.go` | records, VAPID keys, two files | subscribe, send, prune, save, load | answers of slow calls applied to what has changed since; crashes |
| Dynamic DNS | `duckdns.go`, `cloudhub_ddns.go` | credentials, status, loops, public host | Update, SetCredentials, background loops | updates under way while credentials change |
| Configuration | `config_storage.go`, `wizard.go`, `main.go` | Config, `p2pt.env` | load, save, handlers that change fields | fields without a lock, file in place |
| TLS certificates | `acme_duckdns.go`, `acme_cloudhub.go`, `tls_helper.go` | certificate in use, two files, one TXT record per domain | obtain or renew, swap | orders of several goroutines share record, files and memory; readers outside the lock |
| Self-update | `updater.go` | the binary | check, download, replace, restart | version order, repetition |
| GoToSocial proxy | `gotosocial_proxy.go` | accounts of another server, nothing of its own but a mutex | credentials, SSO, proxy | a mutex held over commands and requests |
| Swarm announcer | `swarm.go` | one connection | announce, reconnect | a client of the tracker's protocol |
| UPnP, mDNS, clock, dashboard, Wi-Fi, Windows stubs | several | last reports | I/O | nothing a model would add |

How they meet: `AuthHandler` (main.go) asks the TURN monitor and, for tokens,
recomputes an HMAC; the TURN library then allocates on the ring and its events
go back to the monitor. `ValidatePeerToken` of the signaling server is what the
Git server and the SSO ask whether a peer is present. The panel reads all of
them and calls kick, block and revoke. Dynamic DNS sets the public host that
every link is made of.

## 2. Modules

A step of a model is what runs between two points where another goroutine can
get in: taking a mutex, an atomic flag, a channel operation, a network call, a
write to a file. Code between an `mu.Lock()` and its `Unlock()` with nothing in it
that can block is one step.

| module | models | state and actions |
|---|---|---|
| `RingPorts` | the loop of AllocatePacketConn that builds the ring | the counter at its width (`PortBits`), the list of nodes; the loop test and the body |
| `RingRelay` | the rest of `ring_relay.go` | per port: socket, routes, active list, reader; per connection: phase of Close, channel, a WriteTo under way. Allocate, permissions, the writer's test and registration, the reader's lookup, test and send, Close in its three steps, Close of the ring |
| `SwarmRegistry` | what the tracker promises about its swarms | who is registered in which swarm, who has ended: join, leave every swarm at once |
| `Tracker` | `tracker.go` | per connection: place in HandleWebSocket, request; swarms, peers; the RWMutex as places (readers hold it, a waiting writer keeps new ones out). INSTANCEs `SwarmRegistry` with its `swarms` map |
| `PeerRegistry` | what the signaling server promises about ids | who has which id: claim, give up |
| `Signaling` | `SignalingServer` | per connection: place in HandleWebSocket; clients, recentTokens as ages; both mutexes. INSTANCEs `PeerRegistry` with its `clients` map |
| `DurableMap` | what a component promises that keeps a map in a file it replaces whole | the map a start would find: a change of one key, whole or not at all |
| `SavedMap` | what a component promises that keeps a map in memory and rewrites one file in place, looking at no error | the map, the file, whether a save is under way: a change of one key with its save, which may fail; a death that goes back to the file |
| `GitClaims` | claims and revocations | per request: place in HandleGitCredentials or authenticate; claims, revocations, the file, whether the last save succeeded; admin operations; saves that fail, crash and restart. INSTANCEs `SavedMap` with what memory or, while the process is down, the file holds |
| `StreamRegistry` | what the relay promises about its streams | which are registered, which have been given up: register where there is room, take out |
| `Broadcast` | the WHIP/WHEP relay | streams by the request that made them, the registry by id, connections and the reports of the library still to come. INSTANCEs `StreamRegistry` with its `streams` map |
| `TurnMonitor` | reputations, revocations, sessions | per worker: place in AuthHandler; times as ticks that remain or ages |
| `AdminAuth` | logins and sessions | per worker: place in HandleLogin; attempts, sessions, the password; comparisons of the same password that no limit covers |
| `PushStore` | subscriptions, keys, their files | per worker: place in HandleSubscribe, HandleSend or the save; memory, file, file beside it; crash and restart. INSTANCEs `DurableMap` with what a start would load |
| `DuckDNS` | DuckDNSManager, POST /api/duckdns, POST /api/config, SaveConfigToEnv, the Cloud Hub's callback | credentials, status, configured credentials as they were spelled, public host, file; per handler and loop: place; saves that fail, restart |
| `Certs` | orders for certificates, the files, `currentTLSCert` | per order (the start, two loops, requests): place in EnsureTLSCertificates or ObtainOrRenew; the TXT records, both files, chain and key in memory apart, one handshake; lost answers, failed and cut-off writes, expiry, crash and restart |
| `Fediverse` | how a peer gets its GoToSocial token | per request: place in HandleMastodonCredentials, HandlePhanpySSO or ensureUserToken; whether the account commands run, accounts with the host of their address, the mutex; lost clients, failing calls, a new public host |
| `Nothing` | the value for "none" that the four web components share | a constant |
| `MC*` | small instances: model values, symmetry, tuples a configuration cannot write |
| `RingRelayProofs`, `TrackerProofs`, `SignalingProofs`, `GitClaimsProofs`, `TurnMonitorProofs`, `PushStoreProofs`, `CertsProofs` | theorems about the modules they are named after; `RingRelayProofs` also about `RingPorts` |
| `WebProofs` | theorems about `Fediverse`, `AdminAuth`, `Broadcast` and `DuckDNS`, which share no state and no names (`CastInit`, `DuckInit`, ...), so that one module extends the four |

External code is modelled from its use: the WebRTC library (reports a state
change on a goroutine of its own, once per change, some time after it), the TURN
library (allocates, closes, authenticates), browsers, the push service, DuckDNS, the Cloud Hub,
Let's Encrypt (looks at the TXT record when it is asked to, and issues or refuses), GoToSocial,
and the operating system (the process may die; a file written in place is empty
or cut off until its write is over; a rename is atomic).

The code drops the error of most writes (`git_server.go:125`, `main.go:1281` and `1491`,
`push_manager.go:96`, `acme_cloudhub.go:172`, `tls_helper.go:180`). `GitClaims`, `DuckDNS` and
`Certs` have writes that fail, before or after the file was truncated. `PushStore` has them where
`WriteFails` is set, which its run does not do, because the order of the files is
what it is about; the counterexample `KeysMatch` is what happens if it is.

Time is counted in ticks of no particular length where it matters. What lasts is
kept as the ticks that remain and what is past as an age, both cut off at the
longest period that is compared, so that no clock grows without bound.
Definitions marked "mutant" are never used by the specifications: they are the
mistakes that PROJECT.json substitutes to see that a property notices them.

History variables (`overlapped` in RingRelay, `sinceAdd` in Signaling, `found` and `through` in
GitClaims, `manual`, `raced` and `ended` in TurnMonitor, `overtaken`, `slipped` and `aside` in AdminAuth,
`stored`, `crossed`, `marred`, `torn` and `seen` in Certs, `hurt` in Fediverse, `trusted`, `crossed`
and `mixed` in DuckDNS, `raced` in PushStore and the like) are read by no guard: they
remember what a property has to compare with.

## 3. Runs

Each is `tlc -workers 2 -config <cfg> <module>` in this directory.

Passing runs (what holds):

| run | bounds | shows |
|---|---|---|
| `ring_relay` | 2 clients, 2 ports, 2 addresses of 1 host, channels of 1, 1 failed bind, shutdown at any step | under every overlap of Close with reader, writer and shutdown: the active list is exactly who is allocated, and the shutdown leaves no connection and no open socket behind it (`ActiveWellFormed`); a reply reaches whoever wrote to its address last (`RepliesReachLastWriter`); only a Close that overlaps a packet of its connection leaves a stale route or panics (`OnlyOverlapsHarm`) |
| `tracker` | 2 connections, one of which stalls, 2 peer ids, 2 swarms, 1 offer | `Tracker` implements `SwarmRegistry` (`ImplementsSwarms`); both maps agree (`IndexConsistent`), nothing is left of ended connections (`NoGhosts`), offers go to members (`OffersToMembers`), an announce is answered in the end (`AnnounceAnswered`) |
| `signaling` | 2 connections of 1 id, 2 tokens, grace and retention of 1 tick, kicks, a clock | `Signaling` implements `PeerRegistry` (`ImplementsRegistry`); whom a look at the registry finds is served or about to be taken out, and every served connection is reachable (`RegistryServes`; a forward that looked earlier may still write to a connection that is gone by then, which fails and is logged); a token is good for the grace period after its connection was made (`TokenGraceAfterConnect`); registrations and ends are not held up for ever (`NobodyWaitsForEver`) |
| `git_claims` | 3 requests, 2 peers, the admin, any save may fail, 1 crash | the claims implement `SavedMap` (`SavesDurably`): one claim changes at a time and only with a save, and a crash goes back to the last save that succeeded, or to nothing if one begun since has truncated the file; a revocation made, or a claim of another device found, before a request looked shuts it out whatever else is under way (`LatecomersShutOut`); the Revoked flag of a claim never outlives the revocation nor the claim, and after a save that succeeds the file has what the memory has, whatever failed before (`FlagsHaveReason`) |
| `broadcast` | 2 publishers, one of 1 id and one of 2, 1 or 2 places, 1 subscriber, 1 track, losses | `Broadcast` implements `StreamRegistry` (`KeepsStreams`): what is registered is open and within the limit, although replacing a stream does not count, and whatever takes a stream out gives it to be closed in that step and for good; no track is added twice (`NoTrackTwice`), who is dropped is disconnected (`DroppedClosed`), a lost one makes room in the end (`LostMakesRoom`) |
| `turn_monitor` | 2 requests at a time, admin, clock, 2 allocations to a session, threshold 2 | what was blocked or revoked before a request gets no key (`BarredGetNothing`); a block lasts as long as was said, unless it is one by hand and a request from there was past its look (`BlocksHold`); a revoked session is not renewed (`RevokedNotRenewed`); a session is shown as closed exactly if its user's last act was to end an allocation, however many share it (`SessionsFollow`) |
| `admin_auth` | 2 logins at a time, 1 address, 1 session, password changes, comparisons elsewhere, 2 failures to a lockout | in a lockout only logins that were past the rate limit are compared (`LockoutTight`, a limit of logins alone: the same password is compared without it in IsAuthenticated, the Git server and /api/wifi/configure, see `NoneAside`); every session is of the password in force, but for a login overtaken by its change (`SessionsOfThePassword`); expired sessions and lockouts do not stay (`ExpiredPurged`) |
| `push_store` | 2 requests, 2 peers, 3 subscriptions, 2 key pairs, crashes | the subscriptions implement `DurableMap` (`SavesDurably`): no crash takes anything back; keys outlive a restart (`KeysMatch`), a subscription that works is lost only to a notification that was under way when it was made, and the file is whole and behind the memory only by a save under way (`LostByRaceOnly`) |
| `duckdns` | 2 requests at a time, 1 of them POST /api/config, on top of credentials the server was started with untested; two spellings of one domain and another domain, 2 loops, the Cloud Hub, saves that fail, 1 restart | whenever nobody is assigning, what is configured and the name of the server are trusted (accepted by DuckDNS, or set untested at the start or by POST /api/config) and the file says the same, however requests, loops, failing saves and a restart fall; only handlers that crossed another leave it otherwise, until the next POST /api/duckdns that does not (`OnlyAccepted`); late updates are put right by the loops, but for the Cloud Hub, which names the server in between (`Converges`) |
| `certs` | an appliance set up for the hub's domain or a DuckDNS one, 1 request for the same or another DuckDNS domain, 2 mishaps of any kind (failed call or lost answer, failed or cut-off write, crash, two months pass), handshakes with appliances that have no hub (`Visited`) | chain and key in memory are of one pair whenever the lock is free (`ServedWhole`); the two files match whenever the server is up and nobody writes, whatever a crash left, unless the last order to write could not write both or another one wrote in between (`FilesMatch`); a handshake sends a chain and signs with a key that were both in place since it began, also while they are replaced (`HandshakeMatches`); a domain whose last certificate was stored is not ordered again, through crashes and lost answers, but by an order that crossed another (`NoSecondOrder`); a server with one domain ends up with a current certificate and keeps it (`Certified`) |
| `fediverse` | 2 requests of either kind, a peer and the primary user, a host known by address and by name, account commands that run or not, accounts of earlier runs, 1 mishap (failed call, lost client), 1 renaming | the walk through OAuth is one at a time (`Exclusive`); nobody is refused a token but for an account made under another name or, where the commands do not run, one that is missing or unconfirmed (`RefusedForItsName`); every request is answered (`EveryRequestEnds`) |

Each module's `TypeOK` is a conjunct of one of the invariants of its run. `RingPorts.cfg`, a configuration beside the runs, with 4-bit
ports and every pair of 12 configured bounds, also swapped and 0 (`TypeOK`, `RingExact`, `RingGetsBuilt`), passes too and shows that the
ring has exactly one node per port whenever the last port is not the largest.

Why the bounds are enough: every hazard here is between two actors on one key
(a port, an id, a stream, an address); a third is there where one could hide
behind two (three requests for two peers; the start, a loop and a request for one
certificate). Counters are bounded by what
the code compares them with, one beyond where it matters (a threshold of 2
failures, 2 places, a channel of capacity 1). Crashes and restarts happen at
every step, once or as often as key pairs last. The mishaps of `certs` are
counted together: any two of them in any order, which is what it takes to get
from a failed or interrupted order past its consequence. `Visited` keeps the handshakes
of `certs` to appliances without a hub, where loops and requests replace the certificate
as they do elsewhere; the theorem about handshakes does not need the bound. The safety properties of all
runs are proved for all sizes (section 4 names those that are proved under a hypothesis), so a run need only be large enough to find a wrong property early. Symmetry is used where a run has no
liveness property. `CHECK_DEADLOCK FALSE` stands in configurations where requests
are made once or counted, each with its reason.

Violation runs (where the code does other than it says; findings in PROJECT.json
with the line they contradict):

| run | what happens |
|---|---|
| `ring_ports_wrap` | with the documented default `-max-port 65535` the loop over a uint16 never ends |

### Counterexamples

Properties that a comment, a message or a test states and that TLC refutes. None
is part of a run above; each is reproduced with the configuration of the run it
is about, with this property in the place of the others (an invariant under the
specification without fairness, `Spec`, `AuthSpec`, `CastSpec`, `DuckSpec` or `FedSpec`, a temporal or action property without the line `SYMMETRY`)
and the constants changed as the second column says. Most hold without the
interleaving that is to blame (`SingleConnGetsAll` without a Close during a
WriteTo, `KeysMatch` if writes succeed, `ConfAccepted` and `SavedConf` with one request at a time),
and the runs above check what is left without it.

| property | configuration | line | what happens |
|---|---|---|---|
| `NoSendOnClosedChannel` | `RingRelay.cfg` | `src/ring_relay.go:167` | deliver tests v.closed (src/ring_relay.go:163, `if v.closed.Load() { return }`) and then sends on v.inbound without a lock; Close stores the flag and closes the channel in between (src/ring_relay.go:147-149). A send on a closed channel panics, select and default notwithstanding, and the panic of a reader goroutine ends the process. The comment at src/ring_relay.go:172 says the send is there to drop, "Drop si el buffer está lleno para no congelar el socket físico". |
| `SingleConnGetsAll` | `RingRelay.cfg` | `src/ring_relay.go:136` | WriteTo tests closed, then registers the route (src/ring_relay.go:132-136) with nothing that holds Close back in between: the route is written after unregisterVirtual has removed the connection's routes, and no one removes it again. findTarget prefers it, so packets of that address go to a closed connection and are lost, although src/ring_relay.go:69 says "Si solo hay 1 conexión virtual activa en este puerto, se le entrega directamente". |
| `ShutdownEnds` | `RingRelay.cfg`; `SPECIFICATION FairSpec`; `Conn = {c1}`; `RingSize = 1`; `MaxRefusals = 0` | `src/ring_relay.go:300` | RingRelayAddressGenerator.Close calls v.Close() for each active connection with node.mu held (src/ring_relay.go:294-301); v.Close calls unregisterVirtual, which locks the same mutex (src/ring_relay.go:94), so Close never returns once it meets an active connection, and the generator's and the node's mutexes stay locked. src/main.go:2063 announces "Apagando el servidor con seguridad..." and main defers ringRelay.Close() (src/main.go:1036) after turnServer.Close(), which leaves it whatever allocations the TURN library has not closed by then. |
| `ScrapeCountsAnnounced` | `Tracker.cfg`; `Session = {s1, s2}`; `Staller = {}` | `src/tracker.go:98` | The deferred removePeer(currentPeerID) (src/tracker.go:96-100) deletes whatever session is registered under the peer_id (src/tracker.go:239), not the session that ends: when a client reconnects and announces before its old connection is noticed gone, its new registration is removed and it stays out of the swarm until its next announce. src/tracker_test.go:102 expects of a scrape that follows the client's announce `respScrape.Complete != 1` to be an error. |
| `FirstClaimKept` | `GitClaims.cfg` | `src/git_server.go:467` | HandleGitCredentials reads a copy of the claim, decides, and only then locks and stores the new claim (src/git_server.go:419-478) without looking again: of two anonymous requests for one unclaimed peer both are granted, and the second replaces the claim of the first. src/git_server.go:418 says "Check First-Claim (TOFU) lock: If peer already claimed by another device, disallow anonymous re-issuance". |
| `RevocationSurvives` | `GitClaims.cfg` | `src/git_server.go:134` | RevokePeer keeps the revocation of a peer without a claim in revokedPeers only; saveClaimsLocked writes the claims (src/git_server.go:123) and loadClaims rebuilds revokedPeers from their flags (src/git_server.go:111-114), so the revocation is lost at the next start. src/git_server.go:162 says that IsPeerRevoked "checks whether a peerId has been revoked by admin". |
| `ClaimsSurvive` | `GitClaims.cfg` | `src/git_server.go:125` | os.WriteFile truncates the claims file and writes it again, at every change and at every authenticated Git access; a crash in between leaves a file that loadClaims drops (src/git_server.go:104-110), and every peer is unclaimed again; so does a crash after a write that failed, whose error is dropped. src/git_token.go:67 says that token hashes are there "for safe persistent storage". |
| `OldEndSparesNew` | `Broadcast.cfg` | `src/broadcast_relay.go:200` | Closing a replaced stream makes its connection report Closed, and the callback calls closeStream(streamID), which takes out whatever stream has the id now, that is the new one. src/broadcast_relay.go:101 says "If a stream with this ID already exists, close the old one". |
| `PublisherFreed` | `Broadcast.cfg` | `src/broadcast_relay.go:140` | The stream is registered (src/broadcast_relay.go:116) before PublisherPC is set (:140), so a stream closed in between (DELETE, or replaced) is closed without its connection, which stays open with nobody to close it. src/broadcast_relay.go:393 says "Stream %s closed and resources freed". |
| `SubscribersFreed` | `Broadcast.cfg` | `src/broadcast_relay.go:317` | HandleWHEP looks the stream up (src/broadcast_relay.go:264-266) and joins it later (:317), without asking whether it has been closed: the subscriber is put into the new map of a closed stream and is never closed. src/broadcast_relay.go:393 says "Stream %s closed and resources freed". |
| `ManualBanKept` | `TurnMonitor.cfg` | `src/turn_monitor.go:148` | RecordAuthAttempt sets BlockedUntil to ten minutes from now whatever it was: a failing request that passed CheckIPBlocked before the admin's BlockIP shortens a ban of hours to ten minutes. src/turn_monitor.go:326 says "BlockIP manually bans an IP from connecting to TURN for a given duration (or 24h by default)". |
| `SessionBanHolds` | `TurnMonitor.cfg`; `User = {shared, bad}`; `Known = {shared}` | `src/main.go:1061` | RevokeSession stores the ban of the session key (src/turn_monitor.go:389), but AuthHandler and RecordAuthAttempt look revocations up by user name only (src/main.go:1061, src/turn_monitor.go:114): the session of the shared user, whose name is never banned, goes on. src/turn_monitor.go:388 says "Ban the specific session key (user@ip)". |
| `IdlePurged` | `TurnMonitor.cfg`; `User = {shared, token}`; `Known = {shared, token}`; `Temporary = {token}` | `src/turn_monitor.go:70` | cleanupExpired deletes an idle session only once it has also expired (now.After(s.ExpiresAt)). src/turn_monitor.go:67 says "Purgar sesiones cerradas (>30s) o que lleven más de 2 minutos sin actividad". |
| `ClosedHasNone` | `TurnMonitor.cfg` | `src/turn_monitor.go:198` | Sessions are kept per user and address, and the end of any allocation closes the session, although another allocation of the same user and address is live. src/turn_monitor.go:185 says "RecordAllocationDeleted marca la asignación como cerrada al finalizar". |
| `LockoutLasts` | `AdminAuth.cfg` | `src/auth.go:219` | RecordSuccessfulAttempt deletes the whole entry, the lockout with it: a login that had passed CheckRateLimit before the lockout lifts it when it succeeds. src/auth.go:215 says that it "resets failed attempts counter", and src/auth.go:393 has announced "IP bloqueada durante %v". |
| `NoneOvertaken` | `AdminAuth.cfg` | `src/auth.go:239` | HandleLogin compares the password and creates the session under two locks: a login with the old password that is between the two when SetAdminPassword runs gets a session that is valid for 24 hours. src/auth.go:82 says "Invalidate all existing sessions on password change". (No code under src/ calls SetAdminPassword yet.) |
| `NoneAside` | `AdminAuth.cfg` | `src/auth.go:253` | Only HandleLogin asks CheckRateLimit: IsAuthenticated (src/auth.go:253, 268), the Git server (src/git_server.go:271) and /api/wifi/configure (src/main.go:1639) compare the same password in a lockout and record nothing. src/auth.go:373 answers a login in the lockout with "Acceso bloqueado temporalmente. Espera %d segundos antes de reintentar." |
| `StoredKept` | `PushStore.cfg` | `src/push_manager.go:328` | HandleSend and HandleTest (src/push_manager.go:375) send with no mutex held and then delete whatever record the target has: a peer that has registered a new subscription meanwhile loses it because the old one is gone. src/push_manager.go:326 says "Suscripción no válida o expirada para %s (HTTP %d). Eliminando...". |
| `KeysMatch` | `PushStore.cfg`; `WriteFails = TRUE` | `src/push_manager.go:96` | The error of writing the generated VAPID keys is ignored; the next start generates others and the stored subscriptions are bound to keys nobody has. src/push_manager.go:97 logs "Claves VAPID auto-generadas y persistidas en %s" all the same, and src/push_manager_test.go:76 says that a second manager "debe cargar las mismas claves persistidas". |
| `ConfAccepted` | `DuckDNS.cfg` | `src/duckdns.go:305` | SetCredentials releases the mutex between storing the credentials and Update reading them: the update of one request may test those of another, and the first request then configures and saves credentials DuckDNS never accepted. src/README.md:84 says of the assistant that it lets one "introducir tu subdominio y token directamente en la web, probar la conexión y actualizar la URL pública". |
| `SavedConf` | `DuckDNS.cfg` | `src/config_storage.go:94` | SaveConfigToEnv formats the fields and writes the file with no lock: of two requests the one that formatted first may write last, and the file keeps what is no longer configured. src/config_storage.go:50 says "SaveConfigToEnv persists current configuration to .env format". |
| `HostFollows` | `DuckDNS.cfg` | `src/duckdns.go:190` | An update that began with the old credentials calls onUpdateFunc with the old domain after POST /api/duckdns has made the new one the public host, which stays the old one until the next update, up to ten minutes later. src/README.md:84 promises to "actualizar la URL pública sin reiniciar el servidor". |
| `HostSettles` | `DuckDNS.cfg`; `MaxRestarts = 0`; `MaxConfigs = 0` | `src/main.go:977` | The callbacks of DuckDNS (main.go:964) and of the Cloud Hub (main.go:977) both set the public host: with both configured it is the one or the other, whichever manager updated last. src/README.md:84 promises to "actualizar la URL pública". |
| `CertifiedAtOnce` | `Certs.cfg` | `src/main.go:1980` | Both loops keep one pair of files and one certificate in memory: with two domains configured each loop finds the other's certificate on disk, orders a new one and puts it in place, by turns and for ever. A domain that is first configured by POST /api/duckdns has no loop at all until the next start (src/main.go:1980 looks once), so an order that fails is not tried again and the certificate is not renewed; under `Setups = {<<None, None, d1>>}` TLC finds that too. src/main.go:1979 says "Iniciar tarea de renovación automática de certificados si se usa DuckDNS". |
| `NoneRefused` | `Fediverse.cfg` | `src/gotosocial_proxy.go:500` | The e-mail address that signs a peer in is made from the server's name of the moment, or from the Host header of the request (src/gotosocial_proxy.go:731-733), and an account keeps the address it was created with: once the name has changed, by dynamic DNS or because a client used another one, the peer gets no token any more. src/gotosocial_proxy.go:704 says "passing an authorization code for zero-friction login". |
| `AccountThere` | `Fediverse.cfg` | `src/gotosocial_proxy.go:504` | The account commands run only if ENABLE_MASTODON is in the environment (src/gotosocial_proxy.go:504 and 746). With the flag -mastodon alone (src/main.go:779, "Enable GoToSocial ActivityPub / Mastodon reverse proxy") the routes are served, no account is ever made and every new peer is refused; src/README.md:21 promises "auto-aprovisionamiento de cuentas" with "login transparente". |

Two more that need no state machine. `IsNewerVersion` compares versions as strings
(`updater.go:86-91`): 1.10.0 is not newer than 1.9.0, and an appliance stays on
it. `sanitizePeerUsername` (`gotosocial_proxy.go:384`) drops what is not a letter,
digit, `_`, `-` or `.` and cuts at 25 characters: peers whose ids differ in nothing
else share a user.

Two readings of the code to keep in mind: the grace period of a signaling token
runs from the moment its connection was made, not from its loss (`main.go:226`,
`TokenGraceAfterConnect` states what the code gives); and nothing under `src/` but
tests calls `SetAdminPassword` so far, which `Changes` in `AdminAuth` enables. And one
of a comment: `turn_monitor.go:146` blocks "if > 20 failed attempts in short window", while the
code blocks at the 20th failure since the last success, however long ago the first
was, as `turn_monitor_test.go:48-54` expects; `BlocksHold` states what code and test say.

One check beside the runs: a reader of the ring with a packet in hand gets on (`ReadersMoveOn`),
whatever the clients leave unread; it holds under `SPECIFICATION FairSpec` with `Peer = {a1}` and
`MaxRefusals = 0`. A delivery also waits for the mutex of the traffic counters
(`RecordRelayTraffic`), which nobody holds across anything that can block; that it
is given to who waits for it is part of the fairness (it takes some minutes).

### Fairness

Only the `FairSpec`s (`AuthFairSpec`, `CastFairSpec`, `DuckFairSpec`, `FedFairSpec`) have it, and only for what Go's scheduler or a timeout gives:

* `RingPorts`, `RingRelay` (`RingPorts.cfg`, `ShutdownEnds`, `ReadersMoveOn`): goroutines that
  hold no lock others wait for run on, and a reader is given the mutex of the traffic
  counters (weak fairness of the reader's and Close's steps and of a shutdown begun). `ring_relay` itself assumes none.
* `Tracker`: a handler runs on; a client that stalls reads again. Strong fairness
  of `Sending`: a socket that is read now and then lets the write through. The
  code sets no deadline, so without that assumption nothing of the kind holds.
* `Signaling`: weak fairness of running goroutines, the write deadline ends a
  write; strong fairness of taking a mutex, which Go's mutexes give a waiter.
* `Broadcast`: handlers run on, the library reports a change it owes.
* `AdminAuth`: handlers run on; the ticker of the cleanup, and time.
* `DuckDNS`: an update ends (10 s timeout), tickers tick, and DuckDNS can be
  reached again and again by a loop that keeps trying (strong fairness of a
  loop's accepted answer). Handlers run on, but their saves may
  fail; the Cloud Hub may answer or not.
* `Certs`: goroutines run on and tickers tick (weak fairness of each task). Calls and writes fail only as often
  as `MaxMishaps` allows, so that the authority can be reached in the end: without
  that no certificate can be promised. Handshakes and requests have no fairness.
* `Fediverse`: commands end and calls return or time out (weak fairness); a mutex
  is given to who has waited long enough (strong fairness of taking it), which is
  how Go's mutexes work. Clients need not stay.

## 4. Proofs

TLC checks instances; the theorems hold for every value of the constants that
satisfies the named assumption of the module.

`TrackerProofs`, for every number of connections, ids, hashes and offers, from
`TrackerAssumption` alone (`None` is no session, id or hash; `IdsOf` is a function;
`MaxOffers` is a natural number):

* `TypeCorrect`. `TypeOK` is not inductive by itself: an announce indexes the maps
  with the request's hash and id, which must not be `None`. `RequestShape` says in
  which places a request has both; `Typing` is the conjunction and is inductive.
* `IndexesAgree` (`IndexConsistent`): `swarms[h]` has p exactly if `peers[p]` has h,
  and the keys of `swarms` are the hashes of swarms that are not empty. Inductive
  with `Typing`; the two actions that matter are AnnounceUpdate and RemovePeer.
* `Implements` (`ImplementsSwarms`), the refinement of `SwarmRegistry`: AnnounceUpdate is a
  join, RemovePeer leaves every swarm at once, everything else is a stutter. RemovePeer
  walks only the swarms that `peers[p]` names; that these are all is `IndexConsistent`.
* `GhostFree` (`NoGhosts`): no registration leads to an ended connection, if every
  client keeps to one peer_id per connection (`IdsOf[s]` has one member). The
  strengthening `Registered` says that whoever is registered under p has p as its
  `currentPeerID` or is just registering, so that its deferred removal finds it;
  it needs `IndexConsistent`, because removal goes through `peers[p]`.
* `OffersReachMembers` (`OffersToMembers`): strengthened by `Distribution`, which
  bounds what has been given by what was asked for while the read lock is held.

`SignalingProofs`, for every number of connections, ids and tokens and every period,
from `SignalingAssumption` (the special values differ; the periods are natural numbers, retention no shorter than grace):

* `TypeCorrect`; `TypeOK` is inductive.
* `RegistryLeads` (`RegistryServes`). Its two halves, `Leads` (who is registered is
  registered under its own id, and is served or about to be removed) and `Reachable`
  (who is served is registered or closed) need each other: RemoveClient leaves nobody
  unreachable because it matches the connection and not the id, AddClient because it
  closes whom it replaces.
* `TokensKeepGrace` (`TokenGraceAfterConnect`), strengthened by `Remembered`: until
  the retention is over a token is stored with the very age its last AddClient has, so that
  neither the clean-up of another AddClient nor the end of a connection shortens it.
* `Implements` (`ImplementsRegistry`), the refinement of `PeerRegistry`: AddReplace is a
  claim, RemoveClient a leave if the registration is its own and a stutter if not,
  KickClose an eviction, everything else a stutter. It needs `Leads`: only so does the
  id a connection gives up lead to it.

`PushStoreProofs`, for every number of workers, peers, subscriptions and key pairs,
from `PushAssumption` (`None` and `Torn` are neither values nor each other, `MaxKeys` is at least 1):

* `TypeCorrect`, whether writes fail or not; `TypeOK` is inductive.
* `FileFollows` (`FileCurrent`), if writes succeed. `Exclusive` says that a worker
  between the write and the rename has the mutex; `SaveProgress` says what each
  place of a save has achieved: once written, the file beside it is what is in
  memory, once renamed, so is the file; `Pending` that the file differs from memory at
  most in the record of a worker about to save it. Crashes are safe because the file itself is
  only ever replaced by a rename, and what is in memory at a start is what is loaded.
* `KeepsMap` (`SavesDurably`), if writes succeed: the refinement of `DurableMap`. The rename
  is the change; that it changes one key, although it writes the whole map, is `Pending`.
* `KeptUnlessRaced` (`LostByRaceOnly`), if writes succeed: `Kept` says that a subscription
  that is good and was not raced is in the file, and in memory unless its own save is
  still under way, and `Errands` that nobody is about to delete it: a worker that has
  found an endpoint gone sent to one that is. Without the hypothesis it is false: a
  subscription that was answered for may then be missing from the file.
* `KeysFollow` (`KeysMatch`), if writes succeed. `KeyInv` relates the key in use, the
  key file and the key of every subscription wherever it may be: in memory, in
  either file, or in the hands of a handler. It needs the order of NewPushManager:
  the keys are written before anyone can ask for them. The run with
  `WriteFails = TRUE` (counterexamples) shows that it fails as soon as the write can fail.

`CertsProofs`, for any domains, requests, ages and mishaps, from `CertsAssumption`
(the goroutines and special values differ, there are pair numbers to spare) and
`NoneIsNoPair`.
`Kinds` groups the steps by what they do to a certificate, so that each invariant
looks at the kinds and not at every action:

* `TypeCorrect`. `HasDomain` is the part `TypeOK` lacks: an order under way has a
  domain, and loops and requests run only where one is configured.
* `ServesWhole` (`ServedWhole`), by `Installing` (one order at most is between the
  halves of the copy, it has a pair, and the chain is of that pair) and `Whole`.
* `SignsWithItsKey` (`HandshakeMatches`), by `InSight`: while a handshake is under way the
  chain and the key in memory, also between the two halves of a copy, and the chain
  it has sent are among what was in place since it began. Replacements during
  the handshake are not excepted; what it may mix is what they put there.
* `FilesBelong` (`FilesMatch`), by `Writing`: an order that is about to write its key finds
  the certificate it wrote, unless it is marred (its write failed, or another one's came
  between), and past the start's own look at the files they belong together whenever nobody
  writes. `torn` speaks of the last writer alone and starts anew with the server: whatever
  a crash has cut off, the start puts right. It needs `Alone`: while the server starts
  no loop and no request runs.
* `OrdersOnce` (`NoSecondOrder`), by `Single` (of two orders under way at once each knows it) and
  `Kept` (what was issued last, if it was stored in both files, is on disk and valid, and no
  order that crossed none asks for that domain): SelfSign cannot overwrite it, because it runs
  only if the files do not match. An order that fails after the authority has issued counts
  as issued and not stored.

`RingRelayProofs`, for every number of clients, ports, addresses and connections, from
`RingAssumption`. Five lemmas about sequences without repetitions come first, because
the active list is one from which an element is removed by its index:

* `ListsWellFormed` (`ActiveWellFormed`). `Placed` says that whoever is allocated has
  a port, and a reader, a WriteTo and the shutdown have something in hand; `Active` that a connection is in the list of its
  own port exactly as long as it is live, once; `Orderly` that the ports the shutdown has been
  through have no connection and no open socket, nor the one it is at an open socket. It
  holds because Allocate wants the mutex of the generator. Also proved is what the
  deadlock of the shutdown (`ShutdownEnds`, counterexamples) consists in: the connection
  whose Close it waits for stays in its list.
* `RepliesReach` (`RepliesReachLastWriter`), by `Remembered`: the route of an address leads to
  its last writer as long as that one is live, and permissions do not touch it.
* `OnlyOverlapsDo` (`OnlyOverlapsHarm`), by `Routed` (no route crosses ports, and one to a
  closed connection is from a Close that overlapped) and `InHand` (what a reader or a writer
  that has passed its test has in hand is live, or its Close has overlapped).

`GitClaimsProofs`, for every number of requests, peers and crashes, from `GitAssumption`
(`None` is no request, no peer and not the admin):

* `FileFollows` (`FileCurrent`): every locked section that changes something begins a save
  and gives the mutex back only when it is over; a save writes all there is, so that one
  that succeeds makes up for those that failed; what is loaded is what the file has.
* `KeepsMap` (`SavesDurably`), the refinement of `SavedMap` with memory and file: each handler and
  each operation of the admin changes one key and begins a save (`ChangesOne`, `Begins`), which
  ends with the file as it was, emptied or written; a crash and a start go back to the file.
* `FlagsAreFounded` (`FlagsHaveReason`), by `Reasons`, which says the same of the file, since a
  restart takes the flags from there.
* `ShutsOut` (`LatecomersShutOut`), by `Barred` (a request whose peer has been revoked all along
  is before the look at the revocations or refused, and none lives through a crash) and `Used`: any token seen in a claim, in
  memory, in the file or by a request, has been registered, so that no request
  about to register can put back the claim another one has found.

`TurnMonitorProofs`, for any workers, users, addresses, ports and periods, from
`MonitorAssumption` (the admin's block is longer than the automatic one):

* `BlocksLast` (`BlocksHold`), by `Unraced`: while a block by hand lasts that no request was past
  its look for, none is, so that no failure can come and shorten it. The exception is
  the race that the counterexample `ManualBanKept` shows.
* `NoKeyForBarred` (`BarredGetNothing`), by `Barred`: a reason that is due still holds, and its
  request has not got past the look that asks for it. Only UnblockIP and time take
  reasons away.
* `RevokedStayOut` (`RevokedNotRenewed`), an action property.
* `ClosedByTheLastEnd` (`SessionsFollow`), inductive with `TypeOK` for any number of allocations
  that share a session: it is closed exactly if its user's last act was to end one. That a
  session so shown may have others that live is the counterexample `ClosedHasNone`.

`RingRelayProofs` ends with two theorems about `RingPorts`, for any width of a port number
and any two bounds. Their one hypothesis besides the range of the bounds, that
2^PortBits is a positive natural number, is arithmetic that the provers do not know:

* `RingIsExact` (`RingExact`), by `Building`: as long as the counter has not wrapped, there
  is a node for each port from the first to the one before the counter.
* `NeverBuilt`: if the last port is the largest number, the ring is never built. What
  `ring_ports_wrap` finds with 3 bits is so for the 16 of the code.

`WebProofs` has four parts that do not use each other. GoToSocial, for any requests, users,
hosts and mishaps, from `FediverseAssumption`:

* `OneWalks` (`Exclusive`), inductive with `WalkTyping` (a request past its gate has a user and a host).
* `RefusedForNothingElse` (`RefusedForItsName`), an action property, by `Promised`: what a request
  without a mishap has achieved at each place: an application of its own, and where the
  commands run an account, a confirmed one; a session signed in unless the account has another
  address or, without the commands, nobody has confirmed it. `commands` never changes.

Logins, for any handlers, addresses, passwords, tokens and periods, from `AuthAssumption`
(the handlers are finitely many, since they are counted):

* `SessionsFollowPassword` (`SessionsOfThePassword`), by `Compared`: who has passed the
  comparison has a candidate that the password of now accepts, or was overtaken by its
  change. Without the history variable the property is false (`NoneOvertaken`).
* `LockoutBoundsLogins` (`LockoutTight`), by `Lockouts`: the passwords logins compared in a lockout
  and the logins that still may, together, are fewer than the handlers. A comparison
  moves one from the second to the first; the failure that began the lockout is one of
  the handlers that is neither. Most of the proof is counting (`WorkersCounted`, `FewerCompare`).
  It bounds logins only: `CompareElsewhere` compares without a limit (`NoneAside`).

The broadcast relay, for any publishers, subscribers, ids, tracks and limits, from
`BroadcastAssumption` (a request publishes or subscribes, not both). All use `CastTyping`:
`Addressed` (handlers under way and whoever may still be called back have their id, or
their stream), `Audiences` (who is in the list of a stream has found that stream and
joined) and `Attached` (a track that was added to a subscriber is one the stream has):

* `TracksOnce` (`NoTrackTwice`): a new track is new to everybody in the list, and who copies
  the tracks is not in it yet.
* `NoneLeftOpen` (`DroppedClosed`): the four ways out of the list all close the connection.
* `RegistryFresh` (`RegistryKept`), by `Registry`: a stream is registered under its own id and
  nobody is to close it, so that taking out whatever is registered under an id, as a
  late callback does, leaves no second entry behind; that the limit holds is counted
  over the registered ids.
* `KeepsItsStreams` (`KeepsStreams`), the refinement of `StreamRegistry`, by `CastTyping` and
  `Registry`: HandleWHIP registers, and the four callers of closeStream take out or
  stutter. A stream between its removal and its Close, and a closed one, have been given
  up, so that Close is a stutter.

Dynamic DNS, for any loops, domains, tokens and counts, from `DuckAssumption`:

* `AcceptedOnly` (`OnlyAccepted`), for any number of requests at once and any spellings, by `Trusting`.
  Its parts: `Crossing`, two that assign at the same time are crossed, and one of those
  shows in `mixed`; `Answers`, an update that went well was of trusted credentials, those of
  its own request if it was not crossed; `Owned`, what a handler of POST /api/duckdns that is not crossed
  has put in place so far; `CutOff`, a file whose write did not finish is empty; and `Pure`, what
  holds of configuration, name and file as long as nothing is mixed. `mixed` ends
  when an uncrossed POST /api/duckdns has saved: by `Owned` everything is its own then.
  Without the exception the property is false (`ConfAccepted`, `SavedConf`).

Beyond the prover and left to TLC: liveness under fairness and ENABLED
(`AnnounceAnswered`, `NobodyWaitsForEver`, `LostMakesRoom`, `ExpiredPurged`,
`Converges`, `ReadersMoveOn`, `Certified`, `EveryRequestEnds`), and induction over data. No module uses RECURSIVE
operators.

Every other property of a passing run is proved. Some are so under a hypothesis about
the environment, stated by the theorem or by the property itself, and without it TLC
finds each of them violated: the files of web push if writes succeed (`KeepsMap` of `PushStoreProofs`,
`KeysFollow`, `KeptUnlessRaced`), a client that keeps to one peer_id per connection
(`GhostFree`). Others name in the property the overlap they except: a Close with a packet of
its connection, a login with a change of the password, a block with a request past its
look, handlers and orders that crossed.

## 5. What is not modelled

* Self-update: one goroutine that asks, compares, downloads, renames and exits. The
  one decision that is not plain sequence, the comparison, is a function of two
  strings (see the counterexamples).
* Configuration and start-up: flags, environment and the wizard run once, before
  anything else does; what they left is a start of `DuckDNS` (`Starts`), as credentials nobody
  has tested. The file that is saved later is in `DuckDNS`, without the remounting and
  committing (`lbu`) that follows, and without flags and variables that overrule it at every start.
* Swarm announcer: its announcements are a peer's, which `Tracker` has.
* UPnP, mDNS, clock, dashboard, Wi-Fi, captive portal, Windows stubs: I/O,
  rendering and shell commands, no state that outlives a call but a last report.
* Of the modelled components: contents of packets, SDP and messages, byte
  counters, HMACs and hashes (a token is what it was issued for), parsing of
  requests, rules for local addresses, the Git protocol and repositories, the
  sender's token of web push, the Cloud Hub manager (the same loop as DuckDNS
  with credentials that never change; its callback, which names the server, is in `DuckDNS`). Of certificates: `DisableTLS`, the choice of
  a directory (one that can be written stays so), what is in a file that was cut
  off (it does not load), the accounts and limits of Let's Encrypt (each order makes a new
  account, so an earlier authorization is never reused). Of GoToSocial: the reverse
  proxy with its rewriting of bodies, pages and lists of users, which keep nothing.
* Data races on plain fields: strings of `Config` are read and written whole in
  `DuckDNS` (domains of one length; a torn read of others is not represented).

## 6. Plan

Done: 1. `RingPorts`, `RingRelay`  2. `Tracker` against `SwarmRegistry`  3. `Signaling` against
`PeerRegistry`  4. `GitClaims` against `SavedMap`  5. `Broadcast` against `StreamRegistry`
6. `TurnMonitor`  7. `AdminAuth`  8. `PushStore` against `DurableMap`  9. `DuckDNS`  10. `Certs`
11. `Fediverse`

What could still be modelled is small: `RingRelay` and `TurnMonitor` composed over
the TURN library (a session for every allocation).

Proved: every safety property of the passing runs and the five refinements, in `TrackerProofs`, `SignalingProofs`, `PushStoreProofs`, `CertsProofs`,
`RingRelayProofs`, `GitClaimsProofs`, `TurnMonitorProofs` and `WebProofs`.
