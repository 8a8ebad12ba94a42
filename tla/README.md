# A TLA+ model of Bolid (MIRAGE)

Bolid is a VPN in Go. A client reads IP packets from a TUN device, seals them
under keys of a Noise_IK handshake and sends them over UDP, TLS or a TLS
connection that looks like a visit to a foreign site ("reality"). A server opens
them, writes them to its own TUN device and routes what comes back. This directory
models the parts of that program whose state is shared between goroutines,
between the two ends, or between one run and the next; TLC checks each of them
on small instances, and eight modules of proofs show for every size what matters
most.

Line numbers below are those of the files under `src/`.

## 1. The system

| Part | Source | State | Operations |
|---|---|---|---|
| Anti-replay filter | `internal/replay/replay.go` | highest counter, bitmap, `started` | `New`, `ValidateAndAdd` |
| Session records | `internal/session/session.go`, `record.go` | two keys, send counter, filter, two indices | `Seal`, `Open` |
| Handshake and framing | `session.go`, `handshake_frame.go`, `mac1.go` | one Noise state per attempt | `InitiatorHandshake`, `ResponderHandshake`, `FramedWrite`, `FramedRead`, `newSession` |
| Multi-peer server | `server/server.go` | `byID`, `byIP`, `byPeer`, per session `ep` and `sendMu` | `Serve`, `handleHandshake`, `tunReader`, `sendTo`, `Stop` |
| Client | `client/client.go` | `conn`, `sess` under `mu`; supervisor, receiver, handshake and TUN goroutines | `supervise`, `session`, `handshake`, `tunReader`, `sendKeepalive`, `Stop` |
| Stream framing | `internal/transport/tcp.go` | header buffer `hdr` | `Send`, `Recv`, `Close` |
| UDP transport | `internal/transport/udp.go` | the learnt peer | `Send`, `Recv` |
| UDP server tunnel | `cmd/mirage/tunnel.go` 20-141 | current session, `sendMu` | `runServerTunnel`, `handleHandshake`, `send` |
| TLS server tunnel | `cmd/mirage/tunnel.go` 143-end | active connection and session, `sendMu` | `runServerTunnelTLS`, `handleConn`, `setActive`, `clearIf`, `send` |
| Reality authentication | `obfs/reality/auth.go` | replay cache | `makeAuthSessionID`, `verifyAuthSessionID`, `checkAndAdd` |
| Reality listener | `obfs/reality/reality.go` | one handler per connection, `conns`, `closed` | `acceptLoop`, `handle`, `readFirstRecord`, `relay`, `Accept`, `Close` |
| Profile | `config/profile.go` | none (a codec) | `Validate`, `URL`, `ParseURL` |
| Provisioning | `cmd/mirage/adduser.go`, `peers.go` | the peers file | `cmdAddUser`, `loadPeers` |
| ClientHello parser | `obfs/reality/clienthello.go` | none | `parseClientHello`, `parseSNI` |
| Elligator2, keys | `internal/crypto/ell2.go` | the captured representative | `GenerateKeypair`, `uToRepresentative`, `RepresentativeToPublic`, `DH` |
| Server start, NAT | `cmd/mirage/main.go` 95-210, `internal/netcfg` | rules in the kernel | `cmdServer`, `setupTun`, `EnableNAT` |
| TUN, mobile, scripts | `internal/tun`, `mobile`, `scripts` | file descriptors | I/O |

How they interact. Client and server exchange three kinds of datagram or stream
record: m1 and m2 of the handshake, and transport records that carry data, a
keepalive or a close. The network may lose, repeat and delay datagrams; a stream
delivers in order until it is closed, and a `Send` on it blocks when the peer has
stopped reading. Within a process the goroutines share memory: on the server the
registry (`RWMutex`) and one `sendMu` per session; on the client `mu`, which is
held during `Seal` **and** `Send`. Two things outlive a process: the peers file, which
`adduser` and the server read and write without a lock, and the NAT rules, which
every start of a server checks and adds.

What is hard. Several goroutines seal under one key; a session is replaced while
another goroutine is about to use it; a connection is displaced while a `Send`
blocks on it; the network repeats, alters and reorders what was already processed;
timeouts race late answers; the handlers of several connections end in any order;
one ClientHello arrives on many connections; and a server dies half way through its
start.

What makes each part correct:

- *filter*: each counter is accepted at most once, and nothing inside the window is refused that is new;
- *records*: each payload is handed out at most once, as the type it was sealed, and nothing but the sender moves the window;
- *server*: no nonce is used twice, the three maps agree, a replaced session is dead, `Stop` ends `Serve`;
- *client*: no nonce is used twice, a record leaves on the connection of its session, no connection leaks, `Stop` returns, a dead link is left and a healthy one kept;
- *stream framing*: one `Send` is one record at the other end;
- *server tunnels*: one active tunnel, nothing left behind, an answer returns to who asked;
- *handshake*: the two ends agree on keys and indices, no two sessions share a key, and the ends settle on one session;
- *reality*: a token opens one tunnel, a probe sees the decoy site, nobody waits for ever;
- *ephemeral keys*: the peer decodes the key that was drawn, the secret is that of plain X25519, and all strings on the wire are equally likely;
- *provisioning*: a printed link works with the server that loads the file after it, and NAT rules are there once.

## 2. Modules

Modules with the suffix `_proofs` hold theorems; `MC*` modules and their `.cfg`
files instantiate a module for TLC. A definition whose name has an underscore and
a suffix and the comment `mutant` is a plausible mistake in the definition after
it; replacing the definition by it must make the property listed with it fail.

**AntiReplay** says what a sliding window promises: a set of accepted counters,
`Accept` and `Refuse`. **ReplayFilter** is the code: `bitmap` is the set of
positions whose bit is 1, `ValidateAndAdd` has one action per branch, and its
clearing loop one action per slot, so that "does it return" is a question the
model can answer. Counters wrap at `MaxUint`.

**Session** is `Seal` of one side and `Open` of the other, and extends
`ReplayFilter`: the call of `ValidateAndAdd` inside `Open` is that module's action. A
record carries the header it shows and the header it was sealed with; the network
may put any header on any record and send a side its own records back. `delivered`
counts what `Open` returned, by payload and by the type it was taken for.

**Relay** is what the multi-peer server promises, without maps and locks: a peer has
one session at a time and never an old one again, a packet reaches the TUN once and
only under the current session of a peer, and each record leaves under a counter of
its own.

**MultiPeerServer** has the two goroutines as `pc["serve"]` and `pc["tun"]`. A
session is a number that also stands for its keys. `HandshakeReply` is
`handleHandshake` up to the reply, `Register` the rest under the write lock, so
that records may arrive in between. `Lock`, `SealBegin` and `SealSend` are
`sendTo`: reading the counter and incrementing it are different steps, which is
what `sendMu` is there for. `Receive` lets the network deliver any record a client
may have sealed, from any address, any number of times, in any order. Datagrams
that change nothing are left out (they are stuttering steps). `ServeOther` is a record
that opens and is of no use (a type `Serve` ignores, or a failed `WritePacket`): its
counter is taken and the endpoint moves.

**Client** has the supervisor, the TUN reader and `Stop` as program counters, and
one handshake and one receive goroutine per connection. `mu` is taken and
released where the code does. Delays are nondeterministic; **LinkMonitor** models
the same select loop with a clock: two tickers of one period, answers within
`Rtt`, up to `MaxLost` exchanges lost in a row. Its `MonitorInit`,
`MonitorNext` and `MonitorSpec` bear a prefix so that both can be proved about in one
module.

**MessageChannel** is what `transport.Conn` promises: records, whole and in order.
**StreamConn** has a step per access to `hdr` and per byte of the header, so that a
`Send` and a `Recv` of one end can overlap as two goroutines do. Its `StreamInit`,
`StreamNext` and `StreamSpec` bear a prefix because its proofs share a module with
those of `Handshake`.

**TlsTunnel** and **UdpTunnel** are the two server loops of `tunnel.go`. In the
first, connections are accepted, shake hands, displace one another (`setActive`
swaps under the lock, `EvictPrev` closes outside it), block and end; in the second
every datagram moves the learnt peer before anything else is looked at.

**Handshake** has clients and a server that exchange m1 and m2 over a network with
up to `MaxFaults` faults (a loss, a repetition, a late answer). A key is the
transcript it was derived from, so that "the same key" is equality, and an ephemeral
key is the number of the attempt that drew it.

**Elligator2** says why that last step is sound. It has the definitions of `ell2.go`
one by one (the low-order point chosen by the bits that clamping drops, the
representative with its sign and padding, the map back) over a prime field;
`EllAssumption` names what field and curve have in common with Curve25519, and the
run takes a field of 29 elements. **HandshakeKeys** puts the two together: what is
asked of the keys is asked once, before the first attempt.

**RealityAuth** is the token and its cache, with one goroutine per connection; up to
`MaxDelay` seconds pass between its reading of the clock and its lookup.
**ClientHello** is the parser, vector by vector over bytes, beside an encoder for
whatever a client may send. **RealityListener** extends both: it is the life of a
connection, from its first record through the parser and the token lookup to TLS
and hand-over, or to the relay to the decoy site. A client's stream is the sequence
1, 2, 3, ..., so a byte lost, repeated or made up is visible.

**Profile** holds the codec as operators, **Provisioning** the processes that run
`adduser` against a peers file. **ServerHost** extends it by the server: `cmdServer`
step by step from the TUN device over each NAT rule to `loadPeers`, with an `Exit`
(failure, kill, restart) at every step.

Composition. `Session` contains `ReplayFilter`, `RealityListener` contains
`RealityAuth` and `ClientHello`, `ServerHost` contains `Provisioning` and that
`Profile`. Three detailed modules are shown to implement an abstract one:
`ReplayFilter` the `AntiReplay` window, `MultiPeerServer` the `Relay`, `StreamConn`
the `MessageChannel`; and `RealityListener` implements `RealityAuth`. What the other
modules assume of one another is stated there and checked here: `MultiPeerServer`,
`UdpTunnel` and `Handshake` seal and open in one step and accept each counter once,
as `Session` shows; `Client` and `TlsTunnel` use a stream as `MessageChannel`
describes it (see section 6 for where that is not true); `Handshake` uses an
ephemeral key as `Elligator2` gives it, which `HandshakeKeys` states.

## 3. The runs

Sizes are distinct states; every run ends with an exhausted state space.

| Run | Module | Checks | States |
|---|---|---|---|
| `session` | Session | `WindowExact`, `SenderAhead`, `DeliveredAsSealed`, `ImplementsAntiReplay`, `Returns` | 24 000 |
| `server` | MultiPeerServer | `NonceUnique`, `RegistryConsistent`, `ImplementsRelay`, `StopEndsServe` | 791 000 |
| `client` | Client | `NonceUnique`, `PairedSend`, `NoConnLeak`, `ReaderConfined`, `StopCompletes`, `DeadLinkLeft` | 23 300 |
| `monitor` | LinkMonitor | `HealthyLinkKept`, `DeadLinkDetected` | 6 800 |
| `stream` | StreamConn | `ImplementsChannel` | 468 000 |
| `stream_duplex` | StreamConn | `ImplementsChannel`, **violated** | |
| `tls` | TlsTunnel | `NonceUnique`, `SurvivorIsActive`, `NothingLeft`, `BlockedSendFreed` | 2 034 000 |
| `udp` | UdpTunnel | `NonceUnique`, `AnswersReturn` | 2 480 000 |
| `auth` | RealityAuth | `AcceptedOnce`, `CacheBounded` | 23 100 |
| `prov` | ServerHost | `PrintedIsServed`, `LinkFaithful`, `RulesOnce` | 2 408 000 |
| `hs` | HandshakeKeys | `Agreement`, `FreshKeys`, `EphemeralsRead`, `EphemeralsAgree`, `EphemeralsUniform`, `Settles` | 231 000 |
| `reality` | RealityListener | `TokenOpensOne`, `ParsedAsSent`, `Transparent`, `OfferEnds` | 635 000 |

The type invariants are proved (section 4), as a theorem of their own or as part of
the inductive invariant, and not run again.

What they show and why the bounds are enough:

- **session**. Words of 2 bits, windows of 2 and 4 bits and 9 counters: a slot is
  reused up to four times, jumps of less than, exactly and more than a window
  occur, and `New(0)` takes the default. Records of two types arrive with every
  header there is. The bitmap agrees with the history at every step of the clearing
  loop, the filter is the abstract window, `Open` returns, and no header that the
  sender did not write moves the window or changes what a payload is taken for.
- **server**. Two peers, two ids, three sessions: a peer is replaced while another
  one is current, an id is freed and handed out again, and both goroutines send
  under one session. Counters 0 and 1 of each session are a keepalive and a packet.
  An unknown key and an address routed to nobody are among the inputs. One address
  suffices, as no checked property reads it. `ImplementsRelay` says of every step what
  the abstract server may do, so that a session that was replaced opens nothing more
  and no packet is written twice. `randIndex` returns a free id
  (`IdsCollide = FALSE`) and `Stop` follows `Serve` (`EarlyStop = FALSE`); section 6
  says what happens otherwise.
- **client**. Two connections, the second dialled after every way of losing the
  first, up to three records per session, `Stop` at any point. A link may die at any
  point, and a dead one either swallows what is sent, as UDP does, or blocks, as a
  stream whose peer stopped reading. `StopCompletes` and `DeadLinkLeft` hold up to
  `Wedged`: a `Send` blocks under `mu` while the supervisor needs `mu` itself, to
  send a keepalive or to clear the connection after a close record. A packet of
  `tunReader` that blocks while the supervisor waits in `select` is freed. Section 6
  has the rest.
- **monitor**. The defaults in units of 5 s: keepalive 10 s, idle limit 25 s, one
  lost exchange, answers within 5 s, for 80 s. That is the tightest round trip for
  which one lost keepalive is survived. The first exchange may be lost like any other:
  the server registers a session only after m2 has left, and drops what comes before.
- **stream**. Bytes of two values, so that lengths run from 0 to 3; an empty record,
  one that looks like a header, the longest one, and one that is refused. Either
  end may close at any step. A `Send` and a `Recv` of one end do not overlap, as in
  a handshake; `stream_duplex` lets them.
- **tls**. Three connections: two that overlap and a third that displaces either.
  Each may be closed by its peer or fall silent. Two records leave, which is what a
  repeated nonce takes. `Accept` runs the TLS handshake itself, and a failure ends
  the process, after which nothing is claimed.
- **udp**. Two handshakes from two sockets, the first of which may be answered
  twice, and the reply may fail to leave; two records of each session from either
  side. Every datagram that is dropped still moves the learnt peer (`RecvDropped`).
  `AnswersReturn` is about what the receiving goroutine answers; what the TUN
  goroutine sends goes to whoever was heard last (section 6).
- **auth**. A window of 2 ticks, clocks that are off by 1, lookups held up by 1, and
  a clock that passes four windows: an entry is added at one end of the window and
  purged beyond the other, for two tokens and two connections. `AcceptedOnce` needs
  delay and clock error together to be at most the window; section 6 has the case
  beyond.
- **prov**. Two users, the combinations of address form, transport, PSK and
  keepalive that the code tells apart, an empty file or one with a comment and a
  peer, and a server that starts, dies at any step and starts again, as often as it
  likes. `iptables -C` fails only for a rule that is missing (`Contention = {FALSE}`).
- **hs**. One client with the server's settings and one with an older prologue, five
  attempts, six sessions, two faults in any place. The three properties of ephemeral
  keys are evaluated once, before the first attempt, for every draw of a private key
  and a tweak. The group has 40 elements, a subgroup of order 5 and all eight points
  of low order; the keys cover every class and every sign.
- **reality**. Two connections, each used again and again, of every sort: a probe, a
  client with a token, the same ClientHello once more. A first record of two units
  (one of header), a listener closed at any point, clients that shut down their
  sending side; one connection may leave its first record incomplete. A token is
  valid in the second it was made in and its entry is purged in the next one (`auth`
  has wider windows and clocks that differ). `ParsedAsSent` runs the parser over
  ClientHellos with vectors of every sort of length, one above 255, and over every
  prefix of them.

Deadlock is checked in `session` and `prov`. The other runs switch it off: their
bounds on counters, time or connections end every behaviour, and a stopped client
or server really stops.

### Fairness

- Session: weak fairness of the clearing loop; a goroutine inside it keeps running.
- MultiPeerServer, Client: every goroutine is scheduled; taking a lock is strongly
  fair, because a Go mutex that has kept a waiter for 1 ms is handed to it. In
  Client, `select` picks at random among ready cases, so a case that stays ready is
  taken (strong fairness), and the idle check expires on a dead link. Nothing obliges
  the network, the TUN device or the caller of `Stop`.
- Handshake: client and server go on, and a datagram that is left alone arrives.
  Faults are bounded, so the network is in the end kind; without that, nothing can be
  said of a connection ever being made.
- RealityListener: handlers run, and the tunnel calls `Accept` until it fails
  (`runServerTunnelTLS` does).
- LinkMonitor has a clock instead of fairness: `Tick` waits for what is due.
- StreamConn, TlsTunnel, UdpTunnel, RealityAuth and Provisioning state safety only.

## 4. Proofs

All proofs are checked by TLAPS to the last leaf, in eight modules. A theorem
holds for every value of the constants that the assumption of the module and its
own hypotheses allow. Of the invariants that the runs check all but two are
proved, and so are all refinements; the end of this section says what is not.

**Session_proofs: the filter.** Assumption: `MaxCallSeq < MaxUint`, that is, the
caller never passes the largest value of the counter type; flynn/noise refuses it
first (`session.go:85-89`). The inductive invariant `IInv` is `TypeOK`,
`WindowExact` and `Bounds` (what the loop variable and the accepted set may be
inside the loop). `WindowExact` alone is not inductive: while the loop runs, slots
above `highest` are already cleared for counters to come, so the invariant speaks
of `Front`, the newest counter the bitmap speaks for. The arithmetic step is
`DistinctSlots`: two counters less than a window apart use different slots. From
`IInv` follow `TypeCorrect`, `WindowCorrect` and `Refinement`: every step is a step
of `AntiReplay` or stutters, for every window, word size and counter width.

**Session_proofs: the records.** `EachOnce` is `DeliveredAsSealed` for every header,
index and counter width; `WindowBehindSender` is `SenderAhead`; and `OpenRefines`
carries the refinement over to the filter inside `Open`. Their invariant adds
`Sound` to `IInv`: the record in `Open` is one the sender made (`PassedIsSealed`: the
associated data binds the header), a counter is accepted only after it was sealed,
and `delivered` counts exactly what was accepted.

**MultiPeerServer_proofs.** `NonceSafety` and `TypeCorrect` hold without further
assumptions. `SendInv` strengthens `NonceUnique` by `Locked` (a goroutine between
reading and incrementing the counter holds `sendMu`, and what it read is still the
counter) and `Used` (every record sent has a counter below the current one).
`RegistrySafety` and `ServerIsRelay` assume `~IdsCollide` and `DistinctAddresses`
(each peer has a tunnel address of its own, which is up to the peers file). Their
invariant adds `Pending`: between the reply and the registration the new session
is in no map and its id is still free, and `Registered`: an id leads to a session
that has that id. `ServerIsRelay` is the refinement: every step of the server is a
`Login`, a `Deliver` or a `Send` of `Relay`, or stutters. It needs both invariants:
the registry, so that what opens belongs to a current session, and the counters, so
that what is sent is new.

**Client_proofs: the goroutines.** `NonceSafety`, `Paired`, `NoLeak` and `OneReader`
are the four safety properties of the run `client`, for any number of connections
and records and without further hypotheses. One invariant gives all four.
`InvMutex`: whoever is between its look at `(conn, sess)` and the end of its `Send`
holds `mu`, and nobody else does. So what it looked at is still current when the
record leaves (`InvSealed`), although supervisor, TUN reader and `Stop` change both
at any other time; with `InvSent` (what left has a smaller counter) no nonce comes
twice. `InvConns` is what `NoConnLeak` lacks to be inductive: only the connection
dialled last can be open, only it can have a receiver, and both only from `Dial`
to `Close` in the supervisor.

**Client_proofs: the clock** (LinkMonitor). `Detection`: a link that is up has been
silent for at most the idle limit and one check period; the invariant is that the
next check is in time. `MonitorInv` adds to the types that no timer is behind the
clock, which is how `Tick` is written and no result of its own. `Healthy` assumes
`(MaxLost + 1) * Keepalive + Rtt <= Idle` and shows that a link that answers is
never given up. Its invariant: an answered keepalive newer than `lastRecv` has its
answer under way (`Answering`), and every stretch of `(MaxLost + 1) * Keepalive` up
to the last answered keepalive holds one (`Covered`).

**TlsTunnel_proofs.** All four properties of the run `tls`, without hypotheses.
`SurvivorIsActive` needs `InvDisplaced`: an established connection is the active
one, or some handler is between swapping it out (under the lock) and closing it
(outside); so of two established connections one is about to be closed. `InvActive`
says that the active connection has a handler that has not yet reached `clearIf`,
which is why nothing is left (`Clean`), and `InvCur` that the TUN reader only ever
holds a connection that was active once. A `Send` that blocks is freed
(`BlockedFreed`) because the connection it holds is closed by its own handler or by
the one that displaced it.

**UdpTunnel_proofs.** `NonceSafety` and `AnswersAreReturned`, with `TypeCorrect`. The
difficulty is that the learnt peer is changed by every datagram and read by both
goroutines. `InvNet`: while the receiving goroutine has an answer to send, it has
received nothing since, so the learnt peer is still the source it answers.
`InvSent` counts what was sent by its place in the history of each address.

**Handshake_proofs.** `TypeCorrect`, `EndsAgree` (`Agreement`) and `KeysAreFresh`, over a
network that loses, repeats and delays. A transcript determines client, prologue,
attempt and session (`TranscriptInjective`); the sessions of the server come from
different attempts or different random ids, and a client accepts an m2 only if it
fits the attempt it waits in (`Counterpart`), so the session it makes is the
counterpart of the one the server made with that m2.

**Handshake_proofs: the keys.** `EphemeralsDecode` is `EphemeralsRead` for every prime
field, every curve, every private key and every tweak: what the peer reads out of
the 32 bytes is the key that was drawn. It needs no more than `EllAssumption`, which
names facts of the field (a prime that is 5 modulo 8, -1 a square and 2 none, `Top`
below the prime and at least half of it), of the curve (`-(A + 2)` is a square, `A^2 - 4` is
none, a base point exists) and of the constant `feLopX` (its root exists); all hold
for Curve25519. Everything is computed with numbers that fieldP divides (`Div`), so
that an equation in the field is an identity of polynomials. The argument:

1. The field has inverses (`Bezout`, by the least positive combination of two
   numbers) and no zero divisors, so a square can be divided out (`SqCancel`).
2. A sum of two points is a point. The numerators fit the curve up to the
   denominators (`SumOnCurve`), and no denominator is zero, because d is no square
   and -1 is one (`Complete`). So doubling and adding stays on the curve
   (`TimesPoint`), the eight points that the clamped bits choose lie on it
   (`LowPointPoint`), and every key is u of a point.
3. If u comes from a point, `u^3 + A u^2 + u` is a square (`PointSquare`).
4. A representative r, whatever its sign and its padding, satisfies
   `2 u r^2 = -(u + A)` or, in the other branch, the same with u and `-u - A` exchanged
   (`Encoded`), so the decoder computes one of the two (`Decoded`). The product of
   their two values in step 3 is twice a square, and 2 is no square: one of them
   alone comes from a point (`OtherHalf`), and that one the decoder returns
   (`PointDecodes`).

**Handshake_proofs: the stream.** `StreamIsChannel`: under `~FullDuplex` (a `Send` and a
`Recv` of one end do not overlap, as during a handshake) a `StreamConn` implements
`MessageChannel`, for every base, every set of records and any number of calls; with
`FullDuplex` it does not, which is the run `stream_duplex`. The invariant says where
everything is, without a recursion over the bytes: there are offsets at which the
frames of the records sent begin, each one where the frame before it ends
(`Offsets`), and every byte on the wire is the byte of a frame at its offset
(`Carries`). The receiver stands before a frame, one header byte into it or behind
its header, and `hdr` holds what it read of it (`Reading`); what the sender has
still to write belongs at the end of the wire, and `hdr` is its header if it is
encoded already (`Writing`). That the two never want `hdr` at once is the second
conjunct of `StreamInv`. After `Close` the stream may end inside a frame; the record
it belongs to is not handed over, and nothing after it, since nothing is left to
read (`Dead`).

**RealityListener_proofs: the cache.** `CacheIsBounded` holds for every interleaving.
`NoReplay` assumes `MaxDelay + Early <= authWindow`, where `Early` is how far a token
may be dated ahead: an entry is added at a time in the window of its token, so while
the token is still admitted to some goroutine the entry is at most two windows old
by the reading of any goroutine that may purge it.

**RealityListener_proofs: the connections.** `ImplementsAuth`: what happens to the
cache while connections come and go is a behaviour of `RealityAuth`. From it and
`NoReplay` follows `TunnelIsOne`: a token opens one tunnel, whatever number of
connections carries it. The invariant: every pending lookup belongs to the one
handler that waits for it, and as long as no lookup accepted a token, no
connection that carries it is past the lookup. That the parser offers no token but
the one that was sent is `TokensSent`, a case of what the next paragraph shows.
`Unaltered` is `Transparent`: from the moment the first
record is handed over, what the site or the TLS server got is the stream of the
client from its first byte up to what was read, and before it nothing (`Held`).

**RealityListener_proofs: the parser.** `ParserCorrect` is `ParsedAsSent` for every
ClientHello: any session id, any lengths, any number of extensions and of names in
them, and any place where it may stop. `HelloAssumption` says only that each field
has the type of its vector and fits into it. The parser recurses over bytes of
unbounded length, and the library's induction theorems, which take an operator as a
parameter, are out of reach; but a set of numbers that holds 0, and n + 1 with n,
holds every number, because one that is missing would have a least (`Least`, from
`WFMin`, and `Induction`). With that, a function that calls itself last on shorter
arguments exists (`LoopExists`), so `hostName` and `parseSNI` satisfy the equations
they are defined by (`HostLoop`, `SniLoop`); and the parts of a flattened sequence
stand one behind the other at known offsets (`FlattenFacts`). Where a vector stands,
`Vector` reads it back (`VectorAt`): `Sits(b, p, s)` says that s stands in b behind p
bytes, and each step of the parser moves p from one vector to the next. A search
that steps over entries of other types ends at the first one of type 0
(`FirstFacts`), which is what the encoder's `SentName` picks.

**ServerHost_proofs: the host.** `Idempotent` is `RulesOnce` for any number of users,
starts and deaths of the server, under `Contention = {FALSE}`. The invariant says
which rules are there from where `cmdServer` stands; when the process dies it
forgets where it stood, so for a new start only "at most once" is known, and the
check has to do the rest.

**ServerHost_proofs: the links.** `LinksAreFaithful`: what `ParseURL` makes of a printed
link is what `adduser` was asked for. `RoundTrip` is the lemma: a profile that
validates survives `URL` and `ParseURL`, with each value that is left out coming
back as its default. The hypothesis `Usable` says what the code gets from its
libraries: the empty string is no address (`net/netip`), and the endpoints that were
given are ones `net/url` takes (section 6 has the others). `PrintedServed`: the user of every
printed link is served by a server that loads the file afterwards, whatever
the other processes appended in between. It assumes that the files the
administrator wrote are `InOrder`: they load, and their last line ends in a newline
(section 6 has the case where it does not).

Only model-checked:

- liveness (`Returns`, `StopEndsServe`, `StopCompletes`, `DeadLinkLeft`, `Settles`,
  `OfferEnds`): the prover has no support for ENABLED, which fairness is made of;
- `EphemeralsAgree` and `EphemeralsUniform`, for the field of the run. The first needs
  that addition is associative and every point a multiple of one, the second counts
  the keys that lead to each string; neither step is a matter of a few identities,
  as those of `EphemeralsRead` are.

## 5. What is not modelled

- Cryptography: a sealed record opens under its session and nowhere else; a MAC is
  who could make it; padding and the byte layout of a record are left out. The
  library half of Elligator2 (field, curve, the map back) is modelled from its use.
- TUN devices, addresses and routes: system calls; the device and its address vanish
  with the process. The models see a device that delivers packets and fails. The
  name of the WAN interface is fixed, so rules for an earlier one are not looked at.
- Echo mode, key generation, flags, the mobile wrapper, scripts: wiring without
  state of its own.
- How long a dial takes; the backoff durations; byte layouts other than the
  framing of a stream.

## 6. Where the code does less than its comments say

The first entry has a run of its own. The others are properties and constants of
the modules: set what is named, add the property to the configuration, and TLC
shows the behaviour. None of them is hidden by an assumption that is not named
here.

| Where | What the code does | How to see it |
|---|---|---|
| `internal/transport/tcp.go:43-55` | `Send` and `Recv` of one `StreamConn` share `hdr`; overlapping calls write or decode a wrong length. Client and TLS tunnel always use a connection from two goroutines; `transport.go:2-3` promises one record per call. | run `stream_duplex` |
| `client/client.go:159-162` | `tunReader` sends while it holds `mu`. On a stream whose peer stopped reading, `Stop` (l.115 "завершает работу клиента") waits for `mu` and cannot close the connection, and the supervisor cannot either, once it waits for `mu` in `sendKeepalive` (l.276) or `clearCurrent` (l.204). | `MCClient`: `StopAlwaysCompletes` |
| `client/client.go:204-209` | `clearCurrent` forgets the session before the next attempt reads it, so the client shakes hands although l.209 says "сессию сохраняем". | `MCClient`: `RoamsAfterTraffic` |
| `client/client.go:92-99, 278` | A keepalive interval at or above the idle limit makes the check close a link that answers. | `MCLinkMonitor`, `KeepaliveSec = 6`: `HealthyLinkKept` |
| `client/client.go:99` | 0 means 10 s, although `main.go:270` says "0 = выкл". | `MCLinkMonitor`, `KeepaliveSec = 0`: `ZeroIsOff` |
| `internal/replay/replay.go:73` | `s <= seq; s++` never ends for the largest counter (a direct caller only; `Session.Open` never passes it). | `Spec` of ReplayFilter with `MaxCallSeq = MaxUint`: `Returns` |
| `server/server.go:152` | A `Stop` before `Serve` has stored the socket closes nothing, and `Serve` runs on. | `MCMultiPeerServer`, `EarlyStop = TRUE`: `StopEndsServe` |
| `server/server.go:163, 198` | An id in use is not looked for; a collision (1 in 2^32 for a pair) overwrites the session of another peer. | `IdsCollide = TRUE`: `RegistryConsistent` |
| `server/server.go:137` | A record delayed on the old path moves the endpoint back, although l.62 calls it "текущий endpoint". | `Addr = {a1, a2}`, `Window = 2`: `EndpointIsNewest` |
| `server/server.go:195` | Any valid m1 replaces the session of its peer, also one that was delayed or repeated. `Settles` shows that the client finds its way back. `README.md:115` lists the remedy as still to do. | `MCHandshake`: `NewestHandshakeWins` |
| `cmd/mirage/tunnel.go:166` | The handler that finishes its handshake last becomes active, not the one of the newer connection (l.145 "новое соединение становится активным"). | `MCTlsTunnel`: `NewestWins` |
| `cmd/mirage/tunnel.go:216-219`, `tlsobfs.go:88` | A failed TLS handshake is an error of `Accept`, and the server returns. | `MCTlsTunnel`: `KeepsAccepting` |
| `internal/transport/udp.go:84` | The peer is learnt before the session changes: a record of the old session can reach the new socket before m2, and the client takes it for m2. | `MCUdpTunnel`: `ReplyComesFirst` |
| `obfs/reality/auth.go:104` | The clock is read before the lock. If another goroutine purges in between with a later reading, a token may be accepted twice (l.65-66 "отсутствие повтора"). The goroutine must be held up for longer than the window less the clock error of the client. | `MCRealityAuth`, `MaxDelay = 2`: `AcceptedOnce` |
| `obfs/reality/reality.go:198-211` | A short header is dropped and a short body padded with zeros before the relay (l.171-173 "без отличий"). | `MCRealityListener`: `NothingAltered` |
| `obfs/reality/reality.go:190` | The first copy that ends closes both directions: a client that shuts down its side loses the rest of the answer. | `MCRealityListener`: `AnswerComplete` |
| `internal/netcfg/netcfg.go:84` | Any failure of `iptables -C`, also a lock held by another program, counts as a missing rule, and it is added again (l.67 "Идемпотентно"). | `MCProvisioning`, `Contention = {TRUE, FALSE}`: `RulesOnce` |
| `cmd/mirage/adduser.go:60` | A file without a newline at its end: the new line continues the last one, and the new user is not served. | `MCProvisioning`, `Newline = {TRUE, FALSE}`: `PrintedIsServed` |
| `cmd/mirage/adduser.go:60-87` | The peer is appended before the PSK and the profile are checked; a failure leaves a peer without a link. | `MCProvisioning`: `NoOrphan` |
| `config/profile.go:53` | Only an empty endpoint is refused: with one that `url.Parse` does not take (l.101) a link is printed that nobody can import. | `MCProvisioning`, `Endpoints = {"host:port?"}`: `LinkFaithful` |
| `config/profile.go:56` | A reality profile without a PSK validates, is printed and imported, and ends the client at its first dial. | `MCProvisioning`: `LinkConnects` |

## 7. Plan

Done: the modules above, in the order filter, server, client, monitor, stream
framing, server tunnels, reality authentication, provisioning, handshake, reality
listener, records, relay, ClientHello, Elligator2, server start; and the proofs of
section 4.

Next, in this order:

1. Client, lossy network and MultiPeerServer composed, with roaming: what the two
   ends promise to each other (the endpoint follows the client, and in the end both
   use one session).
2. Several servers on one host, with a WAN interface that changes: which NAT rules
   are left behind.
