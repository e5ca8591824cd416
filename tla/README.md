# Verification of oxitls

TLA+ models of the parts of oxitls that keep state and meet concurrency, time
or failure, checked with TLC on small instances and, where marked, proved with
TLAPS for every value of the constants. `PROJECT.json` maps every definition to
the source lines it stands for.

## The system

oxitls is a TLS library around rustls with a pure-Rust crypto provider. All
paths below are under `src/crates/`.

| part | state | operations | interacts with | hard because |
|---|---|---|---|---|
| `OxiTicketer` (oxitls/src/ticketer.rs) | current and previous key behind an `RwLock` | encrypt, decrypt, rotate | rustls worker threads, rotation task | rotations race, decrypt tries two keys |
| `ReplayGuard` (oxitls/src/anti_replay.rs) | fingerprints with their time, behind a mutex | check_and_record | wall clock | clock read outside the lock, clock steps |
| `AntiReplayTicketer` (anti_replay.rs) | none of its own | encrypt, decrypt | ticketer, guard | two critical sections per decrypt |
| rotation task (oxitls/src/tls13/server.rs) | timer, weak reference | tick, rotate, exit | builder, configs, ticketer | detached, several per ticketer |
| `ServerBuilder` (server.rs, lib.rs), `RustcryptoServerConfigBuilder` (adapter server_builder.rs) | 16 and 5 fields | with_*, build, clone, accept | all of the above | later calls shadow earlier ones |
| `ClientBuilder` (oxitls/src/tls13/client.rs) | 20 fields | with_*, build | verifiers | ranked verifier paths drop settings |
| `Pkcs11SessionPool` (oxitls-adapter-pkcs11/src/pool.rs) | queue of sessions, semaphore | new, acquire, drop | signing threads | two steps to take, two to give back |
| PKCS#11 signer, resolver, provider (oxitls-adapter-pkcs11/src) | resolver with its SNI map; keys and certificates on the token | config, resolve, sign | pool, token, rustls | keys looked up by label at each signature, scheme choice, signature encoding |
| `H2Connection` (oxitls-h2/src/connection.rs) | driver and keepalive task, shared PingPong | ping, graceful_shutdown, abort, drop | h2 crate, peer, application | cancellation, tasks that wait on each other |
| H2 builders and helpers | settings | handshake helpers | h2 crate | little state |
| verifiers (oxitls-adapter-rustls-rustcrypto/src/verifier) | pins, CRLs, OCSP and CT policies, a CRL cache | verify_server_cert | rustls | order of checks, freshness |
| HPKE contexts, ECH configurations (adapter hpke/*.rs, ech_config.rs) | sequence number and key material per context; key pairs | setup, seal, open, export, mint | rustls, network | counter limit, lost and reordered ciphertexts |
| `AwsLcTicketRotator` (oxitls-adapter-aws-lc/src/ticketer.rs) | two keys, task | encrypt, decrypt, lifetime, drop | tokio | interval arithmetic, late timers, abort on drop |
| certificate generation (oxitls-rcgen/src) | keys, certificates, requests | self-sign, CA, intermediate, leaf, CSR, builder | webpki at the peer | nesting, path lengths, usages, foreign requests |
| RustCrypto provider (oxitls-rustcrypto-provider/src): signatures | signing keys | load key, choose scheme, sign, verify | rustls | scheme tables of two versions |
| same: key exchange, with the adapter's hybrid group and acceptor (kx.rs, lib.rs) | ephemeral keys | start, complete, accept with timeout | rustls | order of the parts, damaged shares |
| same: record protection (aead/*.rs), QUIC (quic.rs) | record number, header bytes | encrypt, decrypt, mask, unmask | rustls | offsets, lengths and positions of bytes |
| intermediate cache (oxitls-webpki-roots) | LRU cache | insert, get, touch, clear | verifiers | capacity |
| root stores, core types, stream wrapper, compression, key log, AWS-LC builders | none or per call | conversions, I/O | rustls | little state |

What makes the modelled parts correct:

- a ticket opens exactly in the epoch it was sealed in and in the next one,
  whatever rotations race with encrypt and decrypt;
- a ticket resumes at most once within the replay window, whatever the clock and
  the threads do, and no ticket is refused that was not used;
- keys are retired in time, and neither the rotation tasks nor the HTTP/2 tasks
  outlive what they serve;
- the config that `build()` returns is the one the calls asked for, for the
  builder and for its clones;
- a PKCS#11 session is used by one thread at a time and none is ever lost;
- a ping returns, and fails only when the connection is gone;
- a client accepts only servers that its settings vouch for, whatever other
  settings they are combined with, and remembers only what it verified;
- a ticket of the AWS-LC ticketer opens for an interval at least and hardly longer
  than the lifetime that clients are told;
- an HPKE nonce is never used twice, messages are opened in order and once, and a
  rejected one does not block those that follow;
- a chain of certificates that was issued for a purpose passes path validation,
  a client only connects to a server that has the key of its certificate, and a
  server that is set up well is connected to;
- both ends of a completed key exchange have one secret, records are delivered
  as they were sent or not at all, and QUIC headers survive their protection;
- a client that names a tenant gets that tenant's certificate from a token, and
  what the token signs reaches the client unharmed.

## Modules

| module | models | form |
|---|---|---|
| `SingleUse` | what the replay guard promises | abstract specification |
| `TicketEpochs` | what a rotating ticketer promises | abstract specification |
| `TicketConstants` | the parameters of the next four | constants, assumptions |
| `ReplayGuard` | anti_replay.rs: clock, `ReplayGuard` | refines `SingleUse` |
| `OxiTicketer` | ticketer.rs | refines `TicketEpochs` |
| `AntiReplayTicketer` | anti_replay.rs: the decorator | composes the two above |
| `MCTickets` | three deployments of the above | run `tickets` |
| `TicketRotation` | the task that `build()` spawns, and builds from clones | timers and tasks |
| `ServerBuilder` | all `with_*` methods, `build`, `Clone`, `accept`; the adapter's server builder | calls in every order |
| `AwsLcTicketRotator` | oxitls-adapter-aws-lc/src/ticketer.rs | timer, task, one ticket |
| `MCServer` | the last three and `H2Connection` as scenes | run `server` |
| `SessionPool` | pool.rs and its callers | threads |
| `SignatureSchemes` | keypair.rs; sign.rs, verify.rs and below | pure operators |
| `TokenServer`, `MCTokenServer` | provider.rs, resolver.rs, signer.rs, session.rs of the PKCS#11 adapter | handshakes, token, administrator |
| `MCToken` | pool, names and keys as scenes | run `token` |
| `H2Connection` | connection.rs, the client half | tasks, callers, peer; run `h2_shutdown` |
| `CertVerifiers` | verifier/*.rs, danger.rs: the verdict of each verifier | pure operators |
| `ClientBuilder` | client.rs and client_builder.rs: `with_*`, both `build` methods | calls in every order |
| `ClientHandshake` | the stacked verifiers at work, intermediate_cache.rs | composes the two above |
| `CertGeneration` | oxitls-rcgen: cert.rs, csr.rs, keypair.rs | issues in every order |
| `ProviderHandshake` | how the provider authenticates a server | composes `CertGeneration` and `SignatureSchemes` |
| `KeyExchange` | kx.rs of provider and adapter, accept_with_timeout | two ends, damaged shares |
| `TlsRecords` | record protection, TLS 1.2 and 1.3 | sender, network, receiver |
| `QuicPackets`, `MCQuicPackets` | quic.rs | one packet |
| `Hpke` | hpke/*.rs, ech_config.rs | clients, server, network |
| `MCCrypto` | the last six as scenes | run `crypto` |
| `TicketProofs` | replay guard, ticketer, decorator, `MCTickets` | theorems |
| `ServerProofs` | `TicketRotation`, `AwsLcTicketRotator`, `ServerBuilder` | theorems |
| `TokenProofs` | `SessionPool`, `TokenServer` | theorems |
| `H2ConnectionProofs` | `H2Connection` | theorems |
| `ClientHandshakeProofs` | `CertVerifiers`, `ClientBuilder`, `ClientHandshake` | theorems |
| `CertProofs` | `CertGeneration`, `SignatureSchemes`, `ProviderHandshake` | theorems |
| `RecordProofs` | `TlsRecords` | theorems |
| `CryptoProofs` | `Hpke`, `KeyExchange`, `QuicPackets` | theorems |

A scene is a choice that the initial state makes: a behaviour of an `MC` module
with scenes is a behaviour of one of the modules it extends, and the others stand
still.

How state and actions correspond to the code:

**ReplayGuard.** `seen` is the map behind the mutex, with `NotSeen` where a
fingerprint is absent. A call of `check_and_record` is three steps of a thread:
`BeginCheck` (hash and clock reading, lines 116-117), the critical section
(`CheckFresh` or `CheckReplayed`, both with the pruning of line 122) and
`Return`. Between the first two other threads run and time passes; `MaxLag`
bounds how old a reading may be when the lock is taken. `ClockReadings` is
`SystemTime`: any value within `ClockSkew` of the true time, clamped at the
epoch as in lines 46-51, so that it also steps back. `lastUse` and `uses` are
history.

**OxiTicketer.** Keys are numbered in the order they are generated. `Generate`
is the key generation of `rotate` outside the lock, `Install` its critical
section. `decrypt` holds the read lock from `DecryptCurrent` to
`DecryptPrevious`; `Install` waits for the readers. `epoch` counts the
installations and is history.

**AntiReplayTicketer** has no state except the history variable `openedIn`; its
actions conjoin those of the two modules it extends.

**TicketRotation.** Every `build()` of the shared builder is an element of
`Instance` with its config (`configs`) and its task; `BuildConsuming` is a build
without a clone, which uses the builder up. Time is relative (`due`, `age`), so
behaviours need no bound on the clock. `Fires` is `ticker.tick().await` with
tokio's default burst behaviour; `TicketerAlive` is `weak.upgrade()`.

**ServerBuilder.** `b` holds the fields, `wanted` what the calls asked for.
`Identity`, `ClientAuth`, `Builds` and `Config` are `build()`; `cloned` is the
config that `accept()` would serve, built from `Clone(b)`. `b.api` says whether
the facade or the adapter's builder is in use; `AdapterAuth` is the latter's
choice of a client verifier, with its `optional` flag.

**AwsLcTicketRotator.** `slot` says where the key of the followed ticket is, `ticketAge`
how old it is. Time is counted in half seconds, so that an interval can be a
fraction of one. `StartTicker` is `tokio::time::interval` inside the spawned task,
which refuses an interval of zero; `DropRotator` is `Drop`.

**SessionPool.** `acquire` is `TryAcquire` and then `PopFront`; the drop of a
`PooledSession` is `PushBack` and then `ReleasePermit`.

**TokenServer.** `TokenServerConfig` and `TokenServerConfigSni` read certificates and
key types from the token when a config is built; `ReplaceKey` and `DeleteKey` are the
administrator who renews or destroys a key at any later time. A handshake is
`Resolve`, `ChooseSigner` (for any `Offer` of schemes), `SignViaPool` or `SignFails`
(which look the key up again, by label) and `ClientVerifies`. Host
names are sequences of characters and raw signatures sequences of bytes, because
`MatchSni` and `FinalizeSignature` depend on their positions.

**H2Connection.** `lock` is the tokio mutex with its waiters in order, `ping` the
one user ping that an `h2::PingPong` carries. `CancelPing` drops a `ping()`
future at an await. The h2 crate, the peer and the application are external.

**CertVerifiers, ClientBuilder, ClientHandshake.** `b` holds the fields of the
builder in use (`api` says which: the facade, or the adapter builder that the
facade uses for pins, CRLs and CT). `Path` is the ranking of `build()`,
`AdapterStack` the nesting of the adapter's verifiers, `FacadeConfig` what each
path keeps of the rest. A handshake walks through the layers from the outermost
in (`CheckScts`, `CheckOcsp`, `CheckBase`, `Record`), as the nested
`verify_server_cert` calls do; each layer chooses what the server presents to it,
and `hs` keeps what that was worth by a definition that is not the code's
(`Authentic`, `ShowsGood`, `ShowsRevoked`, `Vouching`), so that the verdict and
the truth can be compared. Path building, name matching and CRL lookup are webpki
and external. Two assumptions are the code's own: the issuer for OCSP and CT is
the certificate presented right after the leaf, which nothing compares with the
path webpki finds, and an embedded SCT never signs the final certificate.

**CertGeneration, ProviderHandshake.** `certs` is everything issued so far, each with
its issuer, key, constraints and usages as the code sets them; `GenerateCa` and the
other actions are the public functions of the crate. `ReceiveForeignCsr` is a
request made elsewhere. `ValidPath` is path validation at the peer (webpki) and
external. `ServerConfig` pairs any leaf, chain and held key; `Connect`, `Answer` and
`Verify` are a handshake of either version, with the schemes that the client offers.

**KeyExchange.** `Start`, `StartAndComplete` and `Complete` are the three calls of
rustls on a group; a share arrives intact, with another length or with other bytes.
Secrets are terms, concatenated in the order of the code. `Accept` and
`AcceptTimesOut` are the two ends of the adapter's `accept_with_timeout`.

**TlsRecords, QuicPackets.** A payload is a sequence of tokens, one for each byte, so
that explicit nonces, tags, padding and the in-place moves are where the code puts
them. `Receive(i, len)` gives the decrypter the first `len` bytes of any record
sent; rustls closes at the first error. In `QuicPackets` a byte is the set of its
one bits, and the receiver does not know the length of the packet number before it
has unmasked the first byte.

**Hpke.** A derived key is the term of what it was derived from, so that two agree
exactly if the code feeds the same inputs to the key schedule. `published` are the
minted ECH configurations, `sealer` and `opener` the contexts. What is sealed stays
in the network and can be opened any number of times, in any order, or never.
`NextSeq` is the increment at its limit (`MaxSeq` for 2^64 - 1).

Definitions whose comment begins with "Faulty variant" are plausible bugs of the
definition that follows them. They are not part of any specification; a property
is kept only if putting such a variant in place violates it.

## Runs

| run | bounds | shows |
|---|---|---|
| `tickets` | 2 workers, 2 rotators, 2 tickets, 5 keys; window 3, lag 1, skew 1, time 7; behind the decorator 1 rotator, 3 keys, time 1 | recent uses are remembered, slots match epochs; refinement of `SingleUse` and `TicketEpochs`; only sealed tickets are recorded, only live ones resumed |
| `server`, scene builder | 1 provider, 1 good and 1 bad SNI name, 3 ticketers or guards | client authentication, clones, guarded ticketers |
| `server`, scene rotation | 2 builds, 1 ticket, interval 3, delay 1, 1 failure | tickets survive a sole task, keys are retired, tasks end |
| `server`, scene rotator | intervals 0, 1/2, 1, 3/2, 2, 3 and 4 s, cap 6 s, delay 1/2 s, 1 failure, age 13.5 s | tickets open for their lifetime |
| `server`, scene h2 | 2 callers, keepalive, 2 handles, 2 streams, 2 cancellations | pings return and fail only when closed, tasks end |
| `ticket_rotation_twice` | 2 builds, no delays | *violation*, see Findings |
| `server_builder_replay` | as the scene builder | *violation*, see Findings |
| `token`, scene pool | 4 threads, 3 sessions | exclusive sessions, backed permits, nothing leaks, exhaustion passes |
| `token`, scenes names and keys | 4 host patterns (the empty one too), names of up to 5 characters; 5 keys, 2 labels, 3 offers of schemes, bytes 0, 1, 48 and 128, and one signature of full length | tenants are separated, signatures arrive intact |
| `token_empty_name` | 1 entry, 1 name | *violation*, see Findings |
| `token_keys` | 1 key, 1 label | *violation*, see Findings |
| `h2_shutdown` | 1 caller, 1 handle, 1 stream | *violation*, see Findings |
| `client_handshake` | 2 leaves (1 pinned), 2 trusted logs and a foreign one, staples of up to 2 responses, lists of up to 3 SCTs, 2 logs required, 2 intermediates, cache of 1 | who is accepted, revocation, strict policies, no refusal of good evidence, what is cached |
| `client_versions` | as above, builders only | *violation*, see Findings |
| `crypto`, scene hpke | 2 sessions, 1 opener, 2 configurations, 2 associated data, counter up to 2 | unique nonces, opened in order, what was released can be opened |
| `crypto`, scene auth | 4 algorithms, 4 certificates, 1 leaf, 1 request; 3 certificates before a handshake | issued chains verify, connected servers hold the key, good servers connect |
| `crypto`, scene kx | both providers, both versions, 3 states of a share at each end | secrets agree |
| `crypto`, scene records | 3 records of 4 messages, explicit nonce 2, tag 2 | records arrive as sent |
| `crypto`, scene quic | first bytes over bits 0, 1, 4 and 7, every mask of them; three header ciphers | headers survive protection |
| `quic_open` | as above | *violation*, see Findings |

The bounds let the interesting cases happen: time in `tickets` runs past two
windows, so that entries expire and a ticket is used again; five keys let two
rotations race twice and a ticket outlive both slots; three ticketers let one
be replaced, guarded twice, or guarded after a rotation was set; one thread more
than sessions exhausts the pool; two responses let a revoked one stand beside a
good one, current or stale, bound or not; three SCTs let a forged one precede the
two logs that count; a cache of one evicts on every chain of two; a counter up to
two reaches its limit with a message before and one at the limit; four
certificates nest an intermediate below an intermediate with a leaf at the end; a
message that ends in zeros looks like the padding of TLS 1.3; bits 0 and 1 encode
the length of the packet number, bit 7 the form of the header, and bit 4 is masked
in short headers only; names of five characters over a letter and a dot hold
empty labels and labels one level too deep. Behind the decorator the clock is
bounded more tightly than for the guard alone: what the composition adds are
rotations between decrypting and asking the guard, which need no time.

Deadlock checking is off where the system really stops: a pool whose construction
failed, a finished handshake, a counter at its limit. In `server` it is on, with a
stutter once the builder was used up or the driver of a connection has ended.

Fairness, in the runs and scenes of these modules. `TicketRotation`: time passes and the tokio runtime polls a task whose
timer is due; builds, drops and handshakes are the application's choice and not
fair. `SessionPool`: a thread that owns a permit or a session runs on (the token
call returns and `Drop` runs, also on errors and unwinding); retrying is not
fair. `H2Connection`: the runtime polls woken tasks, the mutex is first come,
first served, the keepalive timer ticks, and the peer answers pings and finishes
streams; whether it closes, and what the application does, is not fair.

## Proofs

Each theorem holds for every value of the constants that the `ASSUME`s of its
modules admit: any number of threads, tickets, keys, hosts and certificates, any
interval, window and counter limit, sequences of any length. TLC evaluates those
assumptions in the runs.

| module | theorem | states |
|---|---|---|
| `TicketProofs` | `GuardInvariant` | `[](GuardTypeOK /\ RecentUsesAreRemembered)` |
| | `SingleUseRefinement` | `ReplayGuard` implements `SingleUse` |
| | `SlotsInvariant` | `[](TicketerTypeOK /\ SlotsMatchEpochs)` |
| | `EpochsRefinement` | `OxiTicketer` implements `TicketEpochs` |
| | `Composition` | a behaviour of `AntiReplayTicketer` is one of the ticketer and one of the guard |
| | `GuardedRefinement` | behind the decorator both refinements still hold |
| | `TableIsNotPoisoned`, `ResumptionUsesLiveKeys` | `[]GuardedTicketsWereSealed`, `[]GuardedTicketsWereLive` |
| `ServerProofs` | `SoleTasksKeepTickets`, `KeysAreRetiredInTime` | `[]SoleTaskKeepsTickets`, `[]KeysAreRetired` |
| | `LifetimeIsKept` | `[]TicketsOpenForTheirLifetime` |
| | `ServersAuthenticateClients` | `[]ClientsAreAuthenticated` |
| | `ClonesShareTheConfig`, `GuardsFollowTheLastWord` | `[]ClonesBuildTheSame`, `[]FixedTicketersAreGuarded` |
| `TokenProofs` | `Exclusive`, `PermitsFindSessions`, `NothingLeaks` | `[]` of `SessionsAreExclusive`, `PermitsAreBacked`, `IdlePoolIsComplete` |
| | `TenantsStaySeparated`, `SignaturesSurvive` | `[]TenantsAreSeparated`, `[]SignaturesArriveIntact` |
| `H2ConnectionProofs` | `PingsDoNotCollide` | `[]PingsFailOnlyWhenClosed` |
| `ClientHandshakeProofs` | `CountIsOfSigners` | `CountTrustedVerified` is the number of distinct logs that signed |
| | `ServersAreVouchedFor`, `RevokedServersAreRefused` | `[]OnlyVouchedServers`, `[]RevokedIsRefused` |
| | `GoodStaplesAreRequired`, `LogsAreDistinct` | `[]HardRequireNeedsGood`, `[]StrictNeedsDistinctLogs` |
| | `GoodEvidenceIsAccepted` | `[]GoodEvidencePasses` |
| | `CacheHoldsVerifiedChains` | `CacheIsFedByVerifiedChains` (an action property) |
| `CertProofs` | `LeavesVerifyAsPromised` | `[]IssuedChainsVerify` |
| | `ServersHoldTheirKeys`, `GoodServersAreAccepted` | `[]ConnectedServersHoldTheKey`, `[]GoodServersConnect` |
| `RecordProofs` | `RecordsSurvive` | `[]RecordsArriveAsSent` |
| `CryptoProofs` | `NoNonceTwice`, `MessagesOpenInOrder`, `OpenersAreNeverStuck` | `[]` of `NoncesAreUnique`, `OpenedInOrder`, `ReleasedIsOpenable` |
| | `KeyExchangeAgrees`, `HeadersSurvive` | `[]SecretsAgree`, `[]HeadersSurviveProtection` |

Every proof has the same outline: an inductive invariant (a definition of the
component's module, named below), one lemma for each action that preserves it, and
a last step that derives the property from it. The invariants, and why the
properties alone would not do:

*Replay guard* (`GuardInv`). Pruning uses the reading of the thread that prunes,
not the time. The invariant adds that a reading is at most `MaxLag` old and
`ClockSkew` off when it is used, and that an entry carries a stamp that close to
the last use. Then an entry that some thread prunes is older than
`Lower = Window - MaxLag - 2 ClockSkew`, and one that stays is younger than
`Upper = Window + MaxLag + 2 ClockSkew`: the two bounds of the single-use
specification. The clock only has to be within `ClockSkew` of the true time;
nothing is assumed about monotonicity.

*Ticketer* (`TicketerInv`). Keys waiting to be installed are distinct and newer
than any installed key (`KeysAreFresh`, which the numbering of random keys assumes),
and a reader in its second attempt already failed with the current key, which the
read lock keeps true until the second attempt is over.

*Decorator* (`AntiReplayInv`). Every step is a step or a stutter of the ticketer
and of the guard (`StepOfTicketer`, `StepOfGuard`), which gives the refinements of
the composition for free. The two properties of the composition relate state of
both parts: a call that has reached the guard, or is about to return, is about a
ticket that the ticketer opened for this very call in the epoch that `openedIn`
keeps (`CallsAreBacked`).

*Rotation tasks* (`RotationInv`). Neither bound can be seen from a ticket's age
alone. `SoleTaskIsSlow` relates it to the time until the next tick: a sole task that
has rotated once since the ticket was sealed does so again when the ticket has had
its interval, less the lateness, and no sooner. `SomeTaskKeepsPace` is the other direction: while the ticketer is in use,
some task will rotate before the ticket is too old. It needs `TasksServeConfigs`,
that no task ends while somebody uses the ticketer.

*AWS-LC rotator* (`RotatorInv`): the same two bounds for one task whose first tick
may be late by itself, with an interval that may be zero. That the advertised
lifetime matches is arithmetic with quotients, in lemmas of their own.

*Server builder* (`BuilderInv`). The calls in `wanted` are compared with the
fields all along (`AuthIsTracked`, `GuardsAreTracked`), and the config with the
builder's fields once it is built.

*Session pool* (`PoolInv`) counts: permits plus threads that own one, and queued
sessions plus threads that use one, are both the capacity. A thread that has a
permit and no session is one of the former and none of the latter, so that the
queue cannot be empty for it.

*Token server, names* (`TokenInv`). Little has to be invariant (a map has no default
beside it); the work is in the
lemmas about `MatchSni` for names of any length, that a wildcard of the map matches
a name exactly if it covers it by RFC 6125, and that at most one does.

*Token server, signatures* (`SigningInv`, on top of `TokenInv`). The entries of a
resolver were read from the token, whatever their labels lead to by now
(`ResolverServes`), a scheme that was chosen is one of the key's family and for RSA
a PSS scheme (`EntryServes`), and a signature that was made is one of an ECDSA key
under either scheme (`SignedAsChosen`). The lemmas
below it say that `encode_int` changes no number and that the two integers of a
SEQUENCE are found where they were put (`EncodedIntegers`, `DecodesPair`). A number
is represented by its digits to base 256 that are not zero, so that leading zeros
can be stripped without an induction. Halves have at most 48 bytes, those of P-384,
so that all lengths fit into the short form.

*HTTP/2* (`PingInv`). A ping fails on a live connection only when another is
outstanding. `PingHasOwner` says whose that is: of the one thread at the head of
the lock's queue; only a cancelled caller can leave one behind.

*Client handshake* (`HandshakeInv`). Verdicts are given layer by layer, so that the
invariant says what each layer behind the current one has established
(`LayersWerePassed`), for the stack that the builder's fields lead to
(`ConfigIsBuilt`). Below are the lemmas that connect verdicts and truth: an OCSP
verdict of good is authentic, and the count of SCTs is the number of distinct
signers.

*Certificates* (`CertInv`). A certificate keeps the name and number of an issuer
that exists and comes earlier (`ParentsSign`), a certificate's type tells how it
was made (`HandlesTell`), and a key is in two certificates only if both came from
one request (`KeysHaveOneOwner`). `VerifiedIsPromised` and `PromisedVerifies` are
the two directions of path validation; names may coincide, so that a path is
recognised by keys and not by names.

*Authentication* (`AuthInv`, on top of `CertInv`). The identity, the offer and the
chosen scheme are what they were when the verdict was formed (`IdentityIsHeld`,
`HelloIsSent`, `AnswerIsChosen`), although certificates are issued all the time.
`SchemesFit` is the lemma about the scheme tables of both versions.

*Records* (`RecordInv`). Each record is the encryption of its message under its
own number, and the lemmas invert the encryption of every suite: explicit nonce,
padding, content type and tag are found where they were put, whatever the length,
and a shortened record is never opened.

*HPKE* (`HpkeInv`). The counter of a sealer is the number of messages it sealed up
to the limit, everything on the wire was released by one sealer under its own
number, and an opener that returned something is in step with one sealer.

*Key exchange* (`KxInv`) and *QUIC* (`QuicInv`) follow the shares through parsing
and the header bytes through the mask.

Some assumptions bound a bound: `MaxAge` and `RotatorAge` are large enough for the
ages that the properties tell apart (else the age would saturate below the bound
and the property would say less), `MaxClones` is at least the first handle,
`Message` holds typed byte strings whose type is not zero (the padding byte),
`Character` is the alphabet of the host names, with the dot and the star, and the
number of a key on a token determines its algorithm.

Recursion over sequences (the SCT count, path lengths) is written without
RECURSIVE operators, and what the provers cannot do by an induction theorem is
done with a least counterexample: a set of naturals that is not empty has a least
element, and there the step fails.

Only model-checked: the liveness properties (`OrphanedTasksExit`,
`ExhaustionPasses`, `PingsReturn`, `TasksEnd`), since the prover has no fairness
reasoning; and the seven violations, which are counterexamples.

## Findings

- **Rotation runs once per build.** Every `build()` of a clone spawns a task that
  rotates the same shared ticketer, and `accept()` builds a clone per connection
  (lib.rs, line 213): with n live tasks the keys rotate n times per interval, and
  a ticket stops opening long before "one cycle" is over
  (`ticket_rotation_twice`).
- **Anti-replay after rotation is lost.** `with_anti_replay` looks at the
  `ticketer` field only; after `with_ticketer_rotation_interval` it wraps a new
  ticketer that `build()` then ignores in favour of the rotating one, contrary to
  the comment that at most one of the two fields is set
  (`server_builder_replay`).
- **graceful_shutdown cannot drain.** It waits for the driver while it owns
  `send_request`, which keeps the driver running; it returns `Ok` only when the
  peer closes (`h2_shutdown`).
- **Pins, CRLs and CT switch TLS 1.2 on.** They send the facade's `build()` through
  the adapter builder, which enables all protocol versions, although TLS 1.3 only
  is the documented default (`client_versions`).
- **P-256 keys on a token cannot serve.** The signer reads `CKA_KEY_TYPE` and never the
  curve, and takes ECDSA_NISTP384_SHA384 for every EC key if the client offers it;
  the client checks such a signature against a P-384 key, so that the handshake
  fails, although P-256 is documented as supported (`token_keys`).
- **The entry under the empty name is no fallback.** `with_sni_map` sets no default, and
  `lookup` never asks the map for the empty name: a client whose name has no entry,
  or that sends none, gets no certificate although the documentation (resolver.rs,
  lines 120-121) makes that entry the fallback (`token_empty_name`).
  `TenantsAreSeparated` states the rest, that nobody is given it by mistake.
- **Opened QUIC packets panic.** `decrypt_in_place` copies the plaintext back over the
  whole payload, which is longer by the tag: `copy_from_slice` panics for every
  packet that opens (`quic_open`).

Smaller differences met while modelling and not turned into runs:

- The replay window is not exact: a reading taken before the mutex is waited for
  shortens it by the wait, which is why the proved bound is `Lower` and not
  `Window` (the documentation of `AntiReplayTicketer` promises the window).
- The rotation task also lives as long as the builder, not only as long as the
  configs (server.rs, lines 618-620).
- `with_ocsp_response_resolver` asks the resolver once (line 352), not before each
  handshake, and the staple is ignored when there are SNI certificates.
- A cancelled `ping()` leaves its PING outstanding, and the keepalive task takes
  the next error for a closed connection (connection.rs, line 87); this is why
  `PingsFailOnlyWhenClosed` is stated for connections without cancellations.
- The same detour through the adapter drops the client certificate, ECH and
  certificate compression without an error, and the raw-key path drops
  compression; only the provider is documented as not applying. With
  `with_danger_accept_invalid_hostnames`, pins, CRLs and CT are skipped too, which
  is why the properties of `ClientHandshake` are stated for builders without a
  danger flag.
- Pins alone pass the first check of `build()` but then fail in the verifier, which
  wants a root.
- An OCSP responder that identifies itself by key hash is never recognised as the
  issuer (ocsp_client.rs, line 185): if its response carries any certificate, that
  one is taken for the delegated signer and an authentic response may count as
  forged (`goodOddly` in the model).
- The comment in sct.rs (lines 576-578) says a failed reconstruction counts zero
  SCTs; the code checks them over another payload instead, which no embedded SCT
  can satisfy.
- AWS-LC ticketer: with an interval of zero the task panics and the keys never
  rotate; the lifetime drops fractions of a second and is capped, so that a ticket
  may open for longer than clients are told. `TicketsOpenForTheirLifetime` states
  the slack.
- Certificates: serial numbers are constants unless the builder is given one
  (cert.rs, line 950; csr.rs), `build()` gives every certificate the same subject
  key identifier, a request with a P-384 key and a SHA-256 signature is read as
  P-256 (csr.rs, line 242), and a huge `validity_days` panics.
- Provider: the key builder of QUIC makes ChaCha20 packet keys for every suite;
  `extract_keys` of AES-GCM names 256 bits for TLS 1.3 and 128 bits for TLS 1.2,
  whatever the key (gcm.rs, lines 56 and 147); the TLS 1.2 scheme
  list has P-521, which no key can sign with; a TLS 1.2 ChaCha20 record shorter than
  its tag underflows (chacha20.rs, line 185), which the model shows as a connection
  that ends (`Underflows`).
- PKCS#11: `import_cert` creates an object in a read-only session; every session of the
  pool logs in, which a token refuses after the first; the order of a chain is the
  order in which the token finds it; RSA-PSS gets a message that nobody hashed; a raw
  signature whose first byte is 0x30 is taken for an encoded one; Ed25519 is listed
  in the README and refused.
- HTTP/2: the server builder ignores `push_enabled` and keepalive, and the builders
  skip the ALPN check that the helper functions make.
- `RootStoreBuilder::exclude_fingerprint` does not apply to certificates added as DER
  or PEM.
- No ping has a timeout although `H2Error::Timeout` documents one, so that
  `PingsReturn` needs a peer that answers.

## Not modelled

- Cryptographic arithmetic: keys, secrets, signatures and digests are symbolic, and
  two agree exactly if what they are made from agrees. Hashes and MACs of the
  provider each forward to one crate.
- DER and PEM parsing: represented by its outcome. Dates, name constraints, AIA and
  CRL extensions of generated certificates, PKCS#12 and accessors are carried
  through unchanged.
- The TLS state machine (rustls), path building (webpki), HTTP/2 framing (h2), the
  token behind PKCS#11: external, modelled as far as this code uses them.
- HTTP/2 helpers and server connection: settings and calls are forwarded to h2.
- AWS-LC provider, builders and FIPS checks: one chain of rustls calls each.
- Root stores, core types, stream wrapper, certificate compression, key log bridge:
  conversions and I/O without decisions over several steps.
- The client certificate verifier beyond its choice in `ServerBuilder`; `list_keys`,
  which only reads the token, and `import_cert`, whose write a read-only session
  refuses.
- Logging, and lock poisoning (nothing panics inside the critical sections).

## Plan

Done: the ticket path (ticketer, guard, decorator, both rotations), the server
builders, the session pool and the token server, the HTTP/2 client connection, the
client builders with their verifiers and the intermediate cache, HPKE and ECH,
certificate generation, the provider's signatures, key exchange, records and QUIC
packets; proofs of the safety properties that hold. Next:

1. Theorems for results that are lemmas now and interesting by themselves: that an
   OCSP verdict of good is authentic (`CertVerifiers`), that decryption inverts
   encryption for each suite (`TlsRecords`).
2. Action properties from the invariants at hand: that an HPKE counter and the
   epoch of a ticketer never go back, that a verdict of a handshake is final.
