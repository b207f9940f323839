---------------------------- MODULE Credentials ----------------------------
(***************************************************************************)
(* The OAuth credential of one MCP server of an extension: consents that   *)
(* end in a token (internal/workspace/mcpauth.go), the shard of the folder *)
(* that keeps the token beside the record of the client it belongs to      *)
(* (oauth.go, internal/secret/vault.go), and the refreshing source the     *)
(* injector asks for every request (internal/secret/oauth/source.go),      *)
(* which each discovery pass makes anew (secrets.go).                      *)
(*                                                                         *)
(* Consents are 1, 2, ...; each registers a client of its own, and is its  *)
(* record.  <<n, k>> is the k-th token of consent n.  The authorization    *)
(* server is external: it refreshes the newest token of a consent alone,   *)
(* and for its own client.                                                 *)
(***************************************************************************)
EXTENDS Naturals, Sequences

CONSTANTS
    Callbacks,      \* goroutines that finish a consent
    Requests,       \* outbound requests of the extension
    MaxConsents,    \* bound: consents begun
    MaxTurns,       \* bound: tokens of one consent
    MaxPasses       \* bound: sources made between two starts

ASSUME CredentialAssumption ==
    /\ {MaxConsents, MaxTurns, MaxPasses} \subseteq Nat \ {0}
    /\ Callbacks \cap Requests = {}

VARIABLES
    declared,       \* the folder of the extension holds its mcp.json
    shard,          \* its secrets.enc: a token, a record
    asked,          \* how many consents were begun
    pending,        \* MCPAuth.pending
    exchanged,      \* history: how often the code of each was exchanged
    newest,         \* of each consent, the newest token, 0 for none
    expired,        \* the consents whose newest token has expired
    source,         \* the sources made since the start: record, token, last, who holds mu
    wired,          \* Injector.resolvers: the source, 0 if there is none
    pass,           \* the discovery pass under way
    writer,         \* callbacks and requests: where they are, with what in hand
    owed,           \* history: the folder was changed and no pass has begun since
    unmixed         \* history: nothing came between steps that belong together

credentialVars == <<declared, shard, asked, pending, exchanged, newest, expired, source, wired,
                    pass, writer, owed, unmixed>>

Consents == 1..MaxConsents
Sources == 1..MaxPasses
Tokens == Consents \X (1..MaxTurns)
Missing == {}                           \* no token, no record; else a singleton

NoScan == [at |-> "none", saw |-> FALSE, record |-> Missing]
BareShard == [token |-> Missing, record |-> Missing]
Away == [at |-> "away", of |-> 0, token |-> Missing, copy |-> BareShard]

CredentialInit ==
    /\ declared = TRUE /\ shard = BareShard /\ asked = 0 /\ pending = {}
    /\ exchanged = [n \in Consents |-> 0] /\ newest = [n \in Consents |-> 0] /\ expired = {}
    /\ source = <<>> /\ wired = 0 /\ pass = NoScan
    /\ writer = [w \in Callbacks \cup Requests |-> Away]
    /\ owed = FALSE /\ unmixed = TRUE

CredentialTypeOK ==
    /\ {declared, owed, unmixed} \subseteq BOOLEAN
    /\ asked \in 0..MaxConsents /\ pending \subseteq Consents /\ expired \subseteq Consents
    /\ newest \in [Consents -> 0..MaxTurns]
    /\ shard.token \subseteq Tokens /\ shard.record \subseteq Consents
    /\ wired \in {0} \cup DOMAIN source /\ DOMAIN source \subseteq Sources
    /\ \A g \in DOMAIN source : source[g].held \subseteq Requests
    /\ pass.at \in {"none", "record", "token", "bind"}
    /\ \A w \in Requests \cup Callbacks :
          writer[w].at \in {"away", "exchange", "token", "compare", "open", "write", "openRecord",
                            "writeRecord"}

-----------------------------------------------------------------------------
Server == <<asked, pending, exchanged, newest, expired>>
Wiring == <<source, wired, pass>>

Moves(w, from, to) == writer[w].at = from /\ writer' = [writer EXCEPT ![w].at = to]
Leaves(w) == writer' = [writer EXCEPT ![w] = Away]
Writing(w) == writer[w].at \in {"write", "writeRecord"}

WritersBut(w) == DOMAIN writer \ {w}
NobodyBut(w) == \A v \in WritersBut(w) : writer[v] = Away

(* BeginConsent: probe, registration and the consent URL. *)
BeginConsent ==
    /\ declared /\ asked < MaxConsents
    /\ asked' = asked + 1 /\ pending' = pending \cup {asked'}
    /\ UNCHANGED <<declared, shard, exchanged, newest, expired, Wiring, writer, owed, unmixed>>

(* Complete takes the session before anything else ... *)
TakeSession(c, n) ==
    /\ writer[c].at = "away" /\ n \in pending /\ pending' = pending \ {n}
    /\ writer' = [writer EXCEPT ![c].at = "exchange", ![c].of = n]
    /\ UNCHANGED <<declared, shard, asked, exchanged, newest, expired, Wiring, owed, unmixed>>

(* ... exchanges the code, which may fail, and stores the token. *)
Exchange(c) ==
    /\ c \in Callbacks /\ writer[c].at = "exchange"
    /\ LET n == writer[c].of
       IN  \/ /\ exchanged' = [exchanged EXCEPT ![n] = @ + 1] /\ newest' = [newest EXCEPT ![n] = 1]
              /\ writer' = [writer EXCEPT ![c].at = "open", ![c].token = {<<n, 1>>}]
              /\ unmixed' = (unmixed /\ wired = 0 /\ pass = NoScan /\ NobodyBut(c))
              /\ UNCHANGED <<asked, pending, expired>>
           \/ Leaves(c) /\ UNCHANGED <<Server, unmixed>>
    /\ UNCHANGED <<declared, shard, Wiring, owed>>

(* ShardTokens.Set opens the shard, which reads the whole of it ... *)
OpenShard(w) ==
    /\ writer[w].at \in {"open", "openRecord"}
    /\ writer' = [writer EXCEPT ![w].at = IF @ = "open" THEN "write" ELSE "writeRecord",
                                ![w].copy = shard]
    /\ unmixed' = (unmixed /\ \A v \in WritersBut(w) : ~Writing(v))
    /\ UNCHANGED <<declared, shard, Server, Wiring, owed>>

(* ... and Vault.Set writes the whole of it back unless the value is there   *)
(* already; the folder is made anew if it is gone.                          *)
Written(copy, new) == IF new = copy THEN shard ELSE new
Unlock(w) == source' = [g \in DOMAIN source |-> [source[g] EXCEPT !.held = @ \ {w}]]

StoreToken(w) ==
    /\ writer[w].at = "write"
    /\ \/ /\ shard' = Written(writer[w].copy, [writer[w].copy EXCEPT !.token = writer[w].token])
          /\ unmixed' = (unmixed /\ declared)
          /\ IF w \in Callbacks
             THEN writer' = [writer EXCEPT ![w].at = "openRecord", ![w].copy = BareShard]
             ELSE Leaves(w)
       \/ shard' = shard /\ unmixed' = FALSE /\ Leaves(w)
    /\ Unlock(w)
    /\ UNCHANGED <<declared, Server, wired, pass, owed>>
StoreRecord(c) ==
    /\ writer[c].at = "writeRecord" /\ Leaves(c)
    /\ \/ /\ shard' = Written(writer[c].copy, [writer[c].copy EXCEPT !.record = {writer[c].of}])
          /\ unmixed' = (unmixed /\ declared)
       \/ shard' = shard /\ unmixed' = FALSE
    /\ UNCHANGED <<declared, Server, Wiring, owed>>

-----------------------------------------------------------------------------
(* A request takes the resolver under the lock, and asks it outside.  One   *)
(* without a source, or with a static one, is not modelled.                 *)
Match(r) ==
    /\ writer[r].at = "away" /\ wired # 0
    /\ writer' = [writer EXCEPT ![r].at = "token", ![r].of = wired]
    /\ UNCHANGED <<declared, shard, Server, Wiring, owed, unmixed>>

Expire(n) ==
    /\ newest[n] \in 1..(MaxTurns - 1) /\ expired' = expired \cup {n}
    /\ UNCHANGED <<declared, shard, asked, pending, exchanged, newest, Wiring, writer, owed, unmixed>>

(* oauth2: the token in hand if it is still valid, or else a new one for it, *)
(* one refresh at a time.                                                    *)
Valid(t) == t[2] = newest[t[1]] /\ t[1] \notin expired
Token(r) ==
    /\ r \in Requests /\ writer[r].at = "token"
    /\ LET g == writer[r].of
           t == source[g].token
           n == t[1]
           fresh == <<n, newest[n] + 1>>
       IN  \/ /\ Valid(t)
              /\ writer' = [writer EXCEPT ![r].at = "compare", ![r].token = {t}]
              /\ UNCHANGED <<source, newest, expired, unmixed>>
           \/ /\ ~Valid(t) /\ source[g].record = n /\ t[2] = newest[n]
              /\ source' = [source EXCEPT ![g].token = fresh]
              /\ newest' = [newest EXCEPT ![n] = fresh[2]] /\ expired' = expired \ {n}
              /\ writer' = [writer EXCEPT ![r].at = "compare", ![r].token = {fresh}]
              /\ unmixed' = (unmixed /\ g = wired /\ pass = NoScan)
           \/ /\ ~Valid(t) /\ (source[g].record # n \/ t[2] # newest[n])
              /\ Leaves(r) /\ UNCHANGED <<source, newest, expired, unmixed>>
    /\ UNCHANGED <<declared, shard, asked, pending, exchanged, wired, pass, owed>>

(* Value: under mu, a token other than the last one is persisted. *)
Persists(r, t, g) ==
    /\ source' = [source EXCEPT ![g].last = t, ![g].held = {r}]
    /\ Moves(r, "compare", "open")
    /\ unmixed' = (unmixed /\ t = source[g].token /\ g = wired /\ pass = NoScan)
Compared(r, old) ==
    /\ writer[r].at = "compare"
    /\ \E t \in writer[r].token :
          LET g == writer[r].of
          IN  /\ source[g].held = {}
              /\ IF t = old THEN Leaves(r) /\ UNCHANGED <<source, unmixed>>
                                      ELSE Persists(r, t, g)
    /\ UNCHANGED <<declared, shard, Server, wired, pass, owed>>

\* Fault: it is compared with what the library holds, which has refreshed it already.
CompareWithHeld(r) == Compared(r, source[writer[r].of].token)
Compare(r) == Compared(r, source[writer[r].of].last)

-----------------------------------------------------------------------------
(* A discovery pass reads the folders, ...                                  *)
Discover ==
    /\ pass = NoScan /\ pass' = [at |-> "record", saw |-> declared, record |-> Missing]
    /\ owed' = FALSE
    /\ UNCHANGED <<declared, shard, Server, source, wired, writer, unmixed>>

(* ... registers a source for a server that has a record and a token ...    *)
ReadRecord ==
    /\ pass.at = "record"
    /\ pass' = IF declared /\ shard.record # Missing
               THEN [pass EXCEPT !.at = "token", !.record = shard.record]
               ELSE [pass EXCEPT !.at = "bind"]
    /\ UNCHANGED <<declared, shard, Server, source, wired, writer, owed, unmixed>>
Wire ==
    /\ pass.at = "token" /\ Len(source) < MaxPasses
    /\ pass' = [pass EXCEPT !.at = "bind"]
    /\ \/ /\ shard.token = Missing /\ UNCHANGED <<source, wired, unmixed>>
       \/ \E t \in shard.token, n \in pass.record :
             /\ source' = Append(source, [record |-> n, token |-> t, last |-> t, held |-> {}])
             /\ wired' = Len(source')
             /\ unmixed' = (unmixed /\ \A w \in DOMAIN writer : writer[w] = Away)
    /\ UNCHANGED <<declared, shard, Server, writer, owed>>

(* ... and binds what it saw: a resolver nothing binds is forgotten.        *)
Bind ==
    /\ pass.at = "bind" /\ pass' = NoScan
    /\ wired' = IF pass.saw THEN wired ELSE 0
    /\ UNCHANGED <<declared, shard, Server, source, writer, owed, unmixed>>

(* The extension is removed, its shard with it. *)
RemoveExtension ==
    /\ declared /\ declared' = FALSE /\ shard' = BareShard /\ owed' = TRUE
    /\ UNCHANGED <<Server, Wiring, writer, unmixed>>

(* The daemon stops and starts again, which begins with a pass. *)
Halt ==
    /\ pending' = {} /\ wired' = 0 /\ source' = <<>>
    /\ pass' = [at |-> "record", saw |-> declared, record |-> Missing]
    /\ writer' = [w \in DOMAIN writer |-> Away] /\ owed' = FALSE
    /\ unmixed' = (unmixed /\ \A w \in DOMAIN writer : writer[w].at \in {"away", "exchange", "token"})
    /\ UNCHANGED <<declared, shard, asked, exchanged, newest, expired>>

CredentialNext ==
    \/ BeginConsent \/ Discover \/ ReadRecord \/ Wire \/ Bind \/ RemoveExtension \/ Halt
    \/ \E n \in Consents : Expire(n) \/ \E c \in Callbacks : TakeSession(c, n)
    \/ \E c \in Callbacks : Exchange(c) \/ StoreRecord(c)
    \/ \E r \in Requests : Match(r) \/ Token(r) \/ Compare(r)
    \/ \E w \in Callbacks \cup Requests : OpenShard(w) \/ StoreToken(w)

CredentialSpec == CredentialInit /\ [][CredentialNext]_credentialVars
-----------------------------------------------------------------------------
(* "a duplicate callback can never mint a second token" (Complete). *)
CodesAreUsedOnce == \A n \in Consents : exchanged[n] <= 1

(* At rest the shard holds the newest token of its consent and the record   *)
(* of that consent, and the source in use holds the same token: whatever    *)
(* stops, the account stays connected.  A refresh nobody else has a hand in  *)
(* is on disk before its request goes out.                                  *)
AccountIsKept ==
    unmixed /\ (\A w \in DOMAIN writer : writer[w] = Away) =>
        /\ \A t \in shard.token : t[2] = newest[t[1]] /\ shard.record = {t[1]}
        /\ wired # 0 /\ declared => shard.token = {source[wired].token}

(* Once a pass has seen that an extension is gone no request gets its token. *)
RemovalForgets == ~declared /\ ~owed /\ pass = NoScan => wired = 0

CredentialHolds == CredentialTypeOK /\ CodesAreUsedOnce /\ AccountIsKept /\ RemovalForgets
=============================================================================
