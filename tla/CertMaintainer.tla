--------------------------- MODULE CertMaintainer ---------------------------
(***************************************************************************)
(* Certificates of the tunnel's clients (src/tunnel/src/cert.rs, started   *)
(* by client_main): CertMaintainer::initialize loads the three files of a  *)
(* certificate or orders a new one; maintain_certs renews it, writes the   *)
(* files and swaps it into the TLS configuration.  Every order proves the  *)
(* domain with a TXT record on the tunnel's name server (DnsServer).       *)
(*                                                                         *)
(* Certificates of a client are numbered in the order of their issue, and  *)
(* so are the keys and the renewal information that belong to them; 0 is   *)
(* a missing file and Torn a truncated one.  The ACME service is external. *)
(***************************************************************************)
EXTENDS DnsServer

CONSTANTS
  Clients,        \* devices; their challenge values are the clients themselves
  ChallengeName,  \* the name of each client's challenge record
  UserRecords,    \* records that people set through the same interface
  MaxCerts,       \* bound: a client's certificates age only up to this number
  MaxFaults,      \* bound: failed requests, failed writes, crashes of anyone
  MaxUserSets     \* bound: records set by people

ASSUME CertAssumption ==
  /\ Clients \subseteq Values \ {Stale}
  /\ ChallengeName \in [Clients -> Names]
  /\ UserRecords \subseteq [name : Names, kind : Kinds, value : Values \ Clients]
  /\ MaxCerts \in [Clients -> Nat]
  /\ {MaxFaults, MaxUserSets} \subseteq Nat

VARIABLES
  pc,           \* where the client's process is
  disk,         \* its directory acme/
  served,       \* the certificate in the UpdatingCertResolver, 0 when there is none
  window,       \* the suggested renewal window of the certificate on disk
  due,          \* renew_at, as the process knows it, has passed
  interrupted,  \* the last write of the files did not come to its end
  order,        \* ACME: the state of the client's current order
  issued,       \* ACME: how many certificates the client was issued
  replaced,     \* ACME: the certificates that a finalized order replaces
  authorized,   \* ACME: the account has a valid authorization for the name
  faults, userSets

clientVars == <<pc, disk, served, window, due, interrupted>>
acmeVars == <<order, issued, replaced, authorized>>
vars == <<dnsVars, clientVars, acmeVars, faults, userSets>>

Torn == -1
Files == {"info", "cert", "key"}
Writing == {"fill_info", "open_cert", "fill_cert", "open_key", "fill_key"}
PCs == {"down", "account", "creds", "load", "order", "challenge", "answer",
        "announce", "poll", "open_info", "install", "watch",
        "ended"} \cup Writing

Challenge(c) == [name |-> ChallengeName[c], kind |-> "TXT", value |-> c]

TypeOK ==
  /\ DnsTypeOK
  /\ pc \in [Clients -> PCs]
  /\ disk \in [Clients -> [{"creds"} \cup Files -> Int]]
  /\ served \in [Clients -> Nat]
  /\ window \in [Clients -> {"before", "open", "past"}]
  /\ due \in [Clients -> BOOLEAN]
  /\ interrupted \in [Clients -> BOOLEAN]
  /\ order \in [Clients -> {"none", "pending", "ready", "invalid"}]
  /\ issued \in [Clients -> Nat]
  /\ replaced \in [Clients -> SUBSET Nat]
  /\ authorized \in [Clients -> BOOLEAN]
  /\ faults \in Nat
  /\ userSets \in Nat

Init ==
  /\ DnsInit
  /\ pc = [c \in Clients |-> "down"]
  /\ disk = [c \in Clients |-> [f \in {"creds"} \cup Files |-> 0]]
  /\ served = [c \in Clients |-> 0]
  /\ window = [c \in Clients |-> "before"]
  /\ due = [c \in Clients |-> FALSE]
  /\ interrupted = [c \in Clients |-> FALSE]
  /\ order = [c \in Clients |-> "none"]
  /\ issued = [c \in Clients |-> 0]
  /\ replaced = [c \in Clients |-> {}]
  /\ authorized = [c \in Clients |-> FALSE]
  /\ faults = 0
  /\ userSets = 0

Goto(c, l) == pc' = [pc EXCEPT ![c] = l]

\* An error: initialize hands it to client_main, which ends the process;
\* maintain_certs returns it to a task whose result nobody reads, and the
\* process goes on with the certificate it has.
Err(c) == Goto(c, IF served[c] = 0 THEN "down" ELSE "ended")

------------------------------------------------------------------------------
(* CertMaintainer::initialize *)

Start(c) ==
  /\ pc[c] = "down"
  /\ Goto(c, "account")
  /\ UNCHANGED <<dnsVars, disk, served, window, due, interrupted, acmeVars, faults, userSets>>

\* Mutant: credentials that are missing are an error like any other.
GetAccountMissing(c) ==
  /\ pc[c] = "account"
  /\ IF disk[c].creds > 0 THEN Goto(c, "load") ELSE Err(c)
  /\ UNCHANGED <<dnsVars, disk, served, window, due, interrupted, acmeVars, faults, userSets>>

\* getaccount: credentials.json is read; a torn one is an error; without one
\* an account is created and the file truncated, to be filled.
GetAccount(c) ==
  /\ pc[c] = "account"
  /\ \/ /\ disk[c].creds = Torn
        /\ Err(c)
        /\ UNCHANGED disk
     \/ /\ disk[c].creds > 0
        /\ Goto(c, "load")
        /\ UNCHANGED disk
     \/ /\ disk[c].creds = 0
        /\ disk' = [disk EXCEPT ![c].creds = Torn]
        /\ Goto(c, "creds")
  /\ UNCHANGED <<dnsVars, served, window, due, interrupted, acmeVars, faults, userSets>>

WriteCredentials(c) ==
  /\ pc[c] = "creds"
  /\ disk' = [disk EXCEPT ![c].creds = 1]
  /\ Goto(c, "load")
  /\ UNCHANGED <<dnsVars, served, window, due, interrupted, acmeVars, faults, userSets>>

\* load_certs and UpdatingCertResolver::new: the information has to parse, a
\* missing file means that there is no certificate, and the key has to fit.
LoadResult(d) ==
  IF d.info = Torn THEN "error"
  ELSE IF \E f \in Files : d[f] = 0 THEN "none"
  ELSE IF d.cert # Torn /\ d.cert = d.key THEN "loaded" ELSE "error"

\* Whether a renew_at drawn from the window has passed: it may have while the
\* window is open.
Passed(w) == CASE w = "before" -> {FALSE} [] w = "open" -> BOOLEAN [] w = "past" -> {TRUE}

LoadCerts(c) ==
  /\ pc[c] = "load"
  /\ \/ /\ LoadResult(disk[c]) = "error"
        /\ Err(c)
        /\ UNCHANGED <<served, due>>
     \/ /\ LoadResult(disk[c]) = "none"
        /\ Goto(c, "order")
        /\ UNCHANGED <<served, due>>
     \/ /\ LoadResult(disk[c]) = "loaded"
        /\ served' = [served EXCEPT ![c] = disk[c].cert]
        /\ \E b \in IF disk[c].info = disk[c].cert THEN Passed(window[c]) ELSE {FALSE} :
             due' = [due EXCEPT ![c] = b]
        /\ Goto(c, "watch")
  /\ UNCHANGED <<dnsVars, disk, window, interrupted, acmeVars, faults, userSets>>

------------------------------------------------------------------------------
(* ordercert *)

\* new_order: the service refuses to replace a certificate twice.  A valid
\* authorization of the account needs no new challenge.
NewOrder(c) ==
  /\ pc[c] = "order"
  /\ IF served[c] \in replaced[c]
     THEN /\ Err(c)
          /\ UNCHANGED <<dnsVars, order>>
     ELSE /\ Age(c)
          /\ \/ /\ authorized[c]
                /\ order' = [order EXCEPT ![c] = "ready"]
                /\ Goto(c, "poll")
             \/ /\ order' = [order EXCEPT ![c] = "none"]
                /\ Goto(c, "challenge")
  /\ UNCHANGED <<disk, served, window, due, interrupted, issued, replaced, authorized, faults, userSets>>

\* DnsServerClient::add_txt_record: the request reaches the server, or fails
\* because the server is not there.
SendChallenge(c) ==
  /\ pc[c] = "challenge"
  /\ \/ /\ AddRecord(Challenge(c))
        /\ Goto(c, "answer")
     \/ /\ ~Serving
        /\ Err(c)
        /\ UNCHANGED dnsVars
  /\ UNCHANGED <<disk, served, window, due, interrupted, acmeVars, faults, userSets>>

\* The server went away with the request.
AnswerLost(c) ==
  /\ pc[c] = "answer"
  /\ \A k \in calls : k.rec # Challenge(c)
  /\ Err(c)
  /\ UNCHANGED <<dnsVars, disk, served, window, due, interrupted, acmeVars, faults, userSets>>

SetReady(c) ==
  /\ pc[c] = "announce"
  /\ order' = [order EXCEPT ![c] = "pending"]
  /\ Goto(c, "poll")
  /\ UNCHANGED <<dnsVars, disk, served, window, due, interrupted, issued, replaced, authorized, faults, userSets>>

\* The service asks the name server, once.
Validate(c) ==
  /\ order[c] = "pending"
  /\ order' = [order EXCEPT ![c] = IF Answers(Challenge(c)) THEN "ready" ELSE "invalid"]
  /\ authorized' = [authorized EXCEPT ![c] = @ \/ Answers(Challenge(c))]
  /\ UNCHANGED <<dnsVars, clientVars, issued, replaced, faults, userSets>>

\* poll_ready, and finalize, which issues the certificate for a new key.  The
\* requests that follow, for the certificate and for its renewal information,
\* change nothing; they may fail until the first file is opened.
Finalize(c) ==
  /\ pc[c] = "poll"
  /\ \/ /\ order[c] = "ready"
        /\ issued' = [issued EXCEPT ![c] = @ + 1]
        /\ replaced' = [replaced EXCEPT ![c] = @ \cup ({served[c]} \ {0})]
        /\ Goto(c, "open_info")
     \/ /\ order[c] = "invalid"
        /\ Err(c)
        /\ UNCHANGED <<issued, replaced>>
  /\ order' = [order EXCEPT ![c] = IF @ \in {"ready", "invalid"} THEN "none" ELSE @]
  /\ UNCHANGED <<dnsVars, disk, served, window, due, interrupted, authorized, faults, userSets>>

\* write_certs: a file is truncated, then filled; information, certificate,
\* key.
OpenFile(c, f, from, to) ==
  /\ pc[c] = from
  /\ disk' = [disk EXCEPT ![c][f] = Torn]
  /\ Goto(c, to)
  /\ UNCHANGED <<dnsVars, served, window, due, interrupted, acmeVars, faults, userSets>>

FillFile(c, f, from, to) ==
  /\ pc[c] = from
  /\ disk' = [disk EXCEPT ![c][f] = issued[c]]
  /\ window' = [window EXCEPT ![c] = IF f = "cert" THEN "before" ELSE @]
  /\ interrupted' = [interrupted EXCEPT ![c] = @ /\ f # "key"]
  /\ Goto(c, to)
  /\ UNCHANGED <<dnsVars, served, due, acmeVars, faults, userSets>>

\* Mutant: a key file that exists is kept.
write_certs_keeps_key(c) ==
  \/ OpenFile(c, "info", "open_info", "fill_info")
  \/ FillFile(c, "info", "fill_info", "open_cert")
  \/ OpenFile(c, "cert", "open_cert", "fill_cert")
  \/ FillFile(c, "cert", "fill_cert", IF disk[c].key = 0 THEN "open_key" ELSE "install")
  \/ OpenFile(c, "key", "open_key", "fill_key")
  \/ FillFile(c, "key", "fill_key", "install")

write_certs(c) ==
  \/ OpenFile(c, "info", "open_info", "fill_info")
  \/ FillFile(c, "info", "fill_info", "open_cert")
  \/ OpenFile(c, "cert", "open_cert", "fill_cert")
  \/ FillFile(c, "cert", "fill_cert", "open_key")
  \/ OpenFile(c, "key", "open_key", "fill_key")
  \/ FillFile(c, "key", "fill_key", "install")

\* Mutant: after a renewal the loop goes on with the certificate before it.
UpdateKeyForgotten(c) ==
  /\ pc[c] = "install"
  /\ served' = [served EXCEPT ![c] = IF @ = 0 THEN issued[c] ELSE @]
  /\ Goto(c, "watch")
  /\ UNCHANGED <<dnsVars, disk, window, due, interrupted, acmeVars, faults, userSets>>

\* UpdatingCertResolver::update_key with what ordercert returned.
UpdateKey(c) ==
  /\ pc[c] = "install"
  /\ served' = [served EXCEPT ![c] = issued[c]]
  /\ due' = [due EXCEPT ![c] = FALSE]
  /\ Goto(c, "watch")
  /\ UNCHANGED <<dnsVars, disk, window, interrupted, acmeVars, faults, userSets>>

------------------------------------------------------------------------------
(* maintain_certs *)

\* Mutant: renew_at only leads to the next look at the renewal information.
RenewLooksAgain(c) ==
  /\ pc[c] = "watch"
  /\ due[c]
  /\ due' = [due EXCEPT ![c] = FALSE]
  /\ UNCHANGED <<dnsVars, pc, disk, served, window, interrupted, acmeVars, faults, userSets>>

Renew(c) ==
  /\ pc[c] = "watch"
  /\ due[c]
  /\ Goto(c, "order")
  /\ UNCHANGED <<dnsVars, disk, served, window, due, interrupted, acmeVars, faults, userSets>>

\* Every hour renew_at is drawn again from the window that the service gives
\* for the certificate in use; the file keeps the old one.
UpdateRenewInfo(c) ==
  /\ pc[c] = "watch"
  /\ \E b \in Passed(window[c]) : due' = [due EXCEPT ![c] = b]
  /\ UNCHANGED <<dnsVars, pc, disk, served, window, interrupted, acmeVars, faults, userSets>>

\* Time passes: renew_at, if it is the one of this certificate, or the window.
\* A window is days long; nothing of an order takes that long.
RenewAtPasses(c) ==
  /\ pc[c] = "watch"
  /\ disk[c].info = served[c]
  /\ window[c] # "before"
  /\ due' = [due EXCEPT ![c] = TRUE]
  /\ UNCHANGED <<dnsVars, pc, disk, served, window, interrupted, acmeVars, faults, userSets>>

TimePasses(c) ==
  /\ pc[c] \in {"down", "watch", "ended"}
  /\ disk[c].cert > 0
  /\ issued[c] < MaxCerts[c]
  /\ window[c] # "past"
  /\ window' = [window EXCEPT ![c] = IF @ = "before" THEN "open" ELSE "past"]
  /\ UNCHANGED <<dnsVars, pc, disk, served, due, interrupted, acmeVars, faults, userSets>>

------------------------------------------------------------------------------
(* Faults and people *)

Fault == faults < MaxFaults /\ faults' = faults + 1

\* A request to the ACME service or to the name server, or the write of a
\* file, fails.
Fail(c) ==
  /\ pc[c] \in {"account", "creds", "order", "challenge", "answer", "announce", "poll",
                "open_info", "watch"} \cup Writing
  /\ Fault
  /\ interrupted' = [interrupted EXCEPT ![c] = @ \/ pc[c] \in Writing]
  /\ order' = [order EXCEPT ![c] = "none"]
  /\ Err(c)
  /\ UNCHANGED <<dnsVars, disk, served, window, due, issued, replaced, authorized, userSets>>

\* The client's process is killed.
Crash(c) ==
  /\ pc[c] # "down"
  /\ Fault
  /\ interrupted' = [interrupted EXCEPT ![c] = @ \/ pc[c] \in Writing]
  /\ order' = [order EXCEPT ![c] = "none"]
  /\ served' = [served EXCEPT ![c] = 0]
  /\ due' = [due EXCEPT ![c] = FALSE]
  /\ Goto(c, "down")
  /\ UNCHANGED <<dnsVars, disk, window, issued, replaced, authorized, userSets>>

NameServerCrash ==
  /\ Fault
  /\ ServerCrash
  /\ UNCHANGED <<clientVars, acmeVars, userSets>>

\* The handlers of add_record; the last step answers the waiting client.
Answer(k) ==
  /\ UpsertZone(k)
  /\ pc' = [c \in Clients |-> IF pc[c] = "answer" /\ k.rec = Challenge(c)
                              THEN "announce" ELSE pc[c]]
  /\ UNCHANGED <<disk, served, window, due, interrupted, acmeVars, faults, userSets>>

HangUp(k) ==
  /\ \A c \in Clients : pc[c] = "answer" => k.rec # Challenge(c)
  /\ DropCall(k)
  /\ UNCHANGED <<clientVars, acmeVars, faults, userSets>>

UserSetsRecord(r) ==
  /\ userSets < MaxUserSets
  /\ userSets' = userSets + 1
  /\ AddRecord(r)
  /\ UNCHANGED <<clientVars, acmeVars, faults>>

HandlerStep(k) ==
  \/ WriteRow(k) /\ UNCHANGED <<clientVars, acmeVars, faults, userSets>>
  \/ Answer(k)

ServerBoot ==
  /\ ServerStart \/ LoadRow
  /\ UNCHANGED <<clientVars, acmeVars, faults, userSets>>

ClientStep(c) ==
  \/ Start(c) \/ GetAccount(c) \/ WriteCredentials(c) \/ LoadCerts(c)
  \/ NewOrder(c) \/ SendChallenge(c) \/ AnswerLost(c) \/ SetReady(c)
  \/ Finalize(c) \/ write_certs(c) \/ UpdateKey(c)
  \/ Renew(c)

Next ==
  \/ \E c \in Clients :
       \/ ClientStep(c) \/ UpdateRenewInfo(c) \/ Validate(c)
       \/ RenewAtPasses(c) \/ TimePasses(c) \/ Fail(c) \/ Crash(c)
  \/ \E k \in calls : HandlerStep(k) \/ HangUp(k)
  \/ \E r \in UserRecords : UserSetsRecord(r)
  \/ ServerBoot
  \/ NameServerCrash

\* A process that runs, or that its supervisor starts again, takes its steps;
\* so do the handlers and the service.  Nothing forces a fault or a person.
Fairness ==
  /\ \A c \in Clients :
       /\ WF_vars(ClientStep(c))
       /\ WF_vars(UpdateRenewInfo(c))
       /\ WF_vars(Validate(c))
  /\ WF_vars(\E k \in calls : HandlerStep(k))
  /\ WF_vars(ServerBoot)

Spec == Init /\ [][Next]_vars /\ Fairness

------------------------------------------------------------------------------
(* Properties *)

Stored(r) == \E i \in DOMAIN rows : rows[i] = r
CnameAt(name) == \E i \in DOMAIN rows : rows[i].name = name /\ rows[i].kind = "CNAME"

HasRow(r) == \E i \in DOMAIN rows : SameKey(rows[i], r)

\* Whatever name and kind the server answers for has a row in the database,
\* so that a restart at any moment, also between the two halves of
\* add_record, has something to load for it.
ServedIsStored ==
  /\ \A r \in zone : HasRow(r)
  /\ \A i \in DOMAIN toLoad : HasRow(toLoad[i])
  /\ \A k \in calls : k.wrote => HasRow(k.rec)

\* How far write_certs has come, what is on disk and what is served agree.
FilesInOrder ==
  \A c \in Clients :
    /\ pc[c] \in {"open_info", "install"} \cup Writing => issued[c] > 0
    /\ pc[c] \in {"open_cert", "fill_cert", "open_key", "fill_key", "install"}
         => disk[c].info = issued[c]
    /\ pc[c] \in {"open_key", "fill_key", "install"} => disk[c].cert = issued[c]
    /\ pc[c] = "install" => disk[c].key = issued[c]
    /\ \A f \in Files : disk[c][f] \in {Torn} \cup 0..issued[c]
    /\ served[c] <= issued[c]
    /\ disk[c].cert = Torn \/ disk[c].cert >= served[c]

\* Every name the server answers for has a row, and the files of a client
\* follow its progress through write_certs, whoever crashes or fails when.
StorageInv == TypeOK /\ ServedIsStored /\ FilesInOrder

\* An announced challenge is answered with, or hidden by a CNAME; or the server
\* went down since, no handler has the challenge any more, and if the database
\* kept it, it is still to be loaded.
Kept(c) ==
  \/ Challenge(c) \in zone
  \/ Shadowed(zone, Challenge(c))
  \/ /\ faults > 0
     /\ \A k \in calls : k.rec # Challenge(c)
     /\ Stored(Challenge(c)) =>
          ~up \/ \E i \in DOMAIN toLoad : toLoad[i] = Challenge(c)

ChallengeKept ==
  \A c \in Clients :
    /\ order[c] = "pending" => pc[c] = "poll"
    /\ pc[c] = "announce" \/ order[c] = "pending" => Kept(c)

\* Without a fault the server is always there, a client that waits for an
\* answer has a handler at work for it, and only certificates older than the
\* one in use, or than the one being installed, were replaced.
Undisturbed(c) ==
  /\ up /\ toLoad = <<>>
  /\ pc[c] = "answer" => \E k \in calls : k.rec = Challenge(c)
  /\ \A n \in replaced[c] :
       n < IF pc[c] \in {"open_info", "install"} \cup Writing
           THEN issued[c] ELSE served[c]

\* A process that has a certificate never goes back to initialize.
NoFaultInv ==
  \A c \in Clients :
    /\ served[c] # 0 => pc[c] \notin {"down", "account", "creds", "load"}
    /\ faults = 0 => Undisturbed(c)

\* The inductive invariant: what is stored, the challenges under way, and what
\* holds as long as nothing has failed.
IndInv == StorageInv /\ ChallengeKept /\ NoFaultInv

\* While the ACME service may still look at a challenge, the server answers
\* with it, also when another device of the same domain has written its own
\* challenge to the same name since: only a CNAME at the name, or a fault
\* after the database kept the other challenge alone, can hide it.
ChallengeServed ==
  \A c \in Clients :
    /\ order[c] = "pending"
    /\ Serving
    => \/ Challenge(c) \in zone
       \/ Shadowed(zone, Challenge(c))
       \/ faults > 0 /\ ~Stored(Challenge(c))

\* Two devices that order certificates for one domain at the same time do not
\* make each other fail: without a fault, and without a CNAME at the name of
\* the challenge, no order is refused and no renewal loop ends.
NothingFailsByItself ==
  \A c \in Clients :
    faults = 0 /\ ~CnameAt(ChallengeName[c])
    => order[c] # "invalid" /\ pc[c] # "ended"

\* A restart at any moment finds what was served: the files cannot be loaded
\* only when write_certs was cut short (a kill or a failed write after the
\* first file was truncated), and what is loaded is never older than what the
\* process served, since a certificate is on disk before it is swapped into
\* the TLS configuration.
RestartIsSafe ==
  \A c \in Clients :
    /\ LoadResult(disk[c]) = "error" => pc[c] \in Writing \/ interrupted[c]
    /\ LoadResult(disk[c]) = "loaded" => disk[c].cert >= served[c]

\* What no restart repairs: files of two certificates or torn ones, and a
\* CNAME that hides every challenge.
Wedged(c) ==
  \/ LoadResult(disk[c]) = "error"
  \/ disk[c].creds = Torn
  \/ CnameAt(ChallengeName[c])

\* Whatever fails on the way to the first certificate, a client that is
\* started again ends up serving one for good, unless its files are wedged.
EventuallyServing ==
  \A c \in Clients : <>[](served[c] # 0 \/ Wedged(c))

\* A certificate whose window is over is renewed or its loop has ended; also
\* after a restart that found the information of a newer certificate, whose
\* renew_at lies far ahead, next to the old one.
RenewedOrEnded ==
  \A c \in Clients :
    window[c] = "past" ~> window[c] # "past" \/ pc[c] = "ended" \/ Wedged(c)

\* "A background loop monitors renewal windows and renews before expiry"
\* (src/tunnel/README.md:34): a certificate whose window is over is renewed.
RenewsBeforeExpiry ==
  \A c \in Clients : window[c] = "past" ~> window[c] # "past"

==============================================================================
