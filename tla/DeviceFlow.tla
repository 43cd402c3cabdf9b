----------------------------- MODULE DeviceFlow -----------------------------
(***************************************************************************)
(* How a new device gets a token and a domain (tunnel/src/web.rs, db.rs,   *)
(* setup.rs): the device asks for a code and polls, a person approves or   *)
(* rejects the code in a browser, the device exchanges the approved code   *)
(* for an auth token and registers a domain with it.                       *)
(*                                                                         *)
(* Every access to the database is a step: a handler reads a row, decides, *)
(* and writes the whole row back later ("TODO: tx"), while other handlers  *)
(* run.  A handler may be dropped between two steps, when its peer goes    *)
(* away or the server ends, and a device polls again when an answer is     *)
(* lost.  A code belongs to one device, so devices stand for codes.        *)
(***************************************************************************)
EXTENDS Naturals

CONSTANTS
    User,       \* people, by the email or GitHub id they log in with
    Browser,    \* browsers, each with its own session cookie
    Device,     \* devices being set up, with one device code each
    Handler,    \* requests to poll that the server may run at once per device
    Domain,     \* domains
    Available,  \* domains that end in one of available_suffixes
    Owner0,     \* the owners of the domains that were registered before
    MaxFaults,  \* bound: lost answers, server crashes, late timers
    None

ASSUME ConstantsAssumption ==
    /\ Available \subseteq Domain /\ None \notin User \cup Domain \cup Handler
    /\ Owner0 \in [Domain -> User \cup {None}]
    /\ MaxFaults \in Nat

VARIABLES
    \* the database
    users,      \* users
    sessions,   \* sessions: the user of each browser's cookie
    tokens,     \* device_tokens: state and approved_by_user_id
    auth,       \* auth_tokens: user_id and, for the properties, the code that
                \* was exchanged; two with the same are not told apart
    domains,    \* user_domains
    \* the handlers of the server
    web,        \* what the server does for a browser
    polls,      \* poll_device_token
    \* the devices (run_device, run_interactive_setup)
    dev,        \* their state
    current,    \* the poll whose answer the device waits for
    devToken,   \* the auth token it got
    devDomain,  \* the domain it chose
    \* history
    approvals,  \* who has submitted the approval of which pending code
    rejections, \* codes whose rejection was submitted while they were pending
    faults

browser == <<users, sessions, web, approvals, rejections>>
device == <<dev, current, devToken, devDomain>>
vars == <<browser, tokens, auth, domains, polls, device, faults>>

Token == [state : {"none", "Pending", "Approved", "Rejected", "Exchanged"},
          by : User \cup {None}]

AuthToken == [code : Device, user : User]

NoToken == [state |-> "none", by |-> None]

WebState == [pc : {"idle", "create", "session", "approve", "reject"},
             user : User \cup {None}, code : Device \cup {None}, copy : Token]

PollState == [pc : {"idle", "read", "update", "create", "reply"}, copy : Token,
              answer : {"none", "Pending", "Rejected", "Exchanged", "token"}]

WebIdle == [pc |-> "idle", user |-> None, code |-> None, copy |-> NoToken]
PollIdle == [pc |-> "idle", copy |-> NoToken, answer |-> "none"]

Init ==
    /\ users = {Owner0[x] : x \in Domain} \ {None}
    /\ sessions = [b \in Browser |-> None]
    /\ tokens = [d \in Device |-> NoToken]
    /\ auth = {} /\ domains = Owner0
    /\ web = [b \in Browser |-> WebIdle]
    /\ polls = [d \in Device |-> [h \in Handler |-> PollIdle]]
    /\ dev = [d \in Device |-> "start"]
    /\ current = [d \in Device |-> None]
    /\ devToken = [d \in Device |-> None]
    /\ devDomain = [d \in Device |-> None]
    /\ approvals = {} /\ rejections = {} /\ faults = 0

Fault == faults < MaxFaults /\ faults' = faults + 1

NoFault == UNCHANGED faults

-----------------------------------------------------------------------------
(* Logging in and out *)

\* login_callback_handler (or login_test_handler): the user is looked up.
LoginLookup(b, u) ==
    /\ web[b] = WebIdle
    /\ web' = [web EXCEPT ![b].user = u,
                          ![b].pc = IF u \in users THEN "session" ELSE "create"]
    /\ UNCHANGED <<users, sessions, approvals, rejections, tokens, auth, domains,
                   polls, device, faults>>

\* create_user; the unique index refuses a second row, and the handler panics.
LoginCreate(b) ==
    /\ web[b].pc = "create"
    /\ users' = users \cup {web[b].user}
    /\ web' = [web EXCEPT ![b] =
                  IF web[b].user \in users THEN WebIdle ELSE [@ EXCEPT !.pc = "session"]]
    /\ UNCHANGED <<sessions, approvals, rejections, tokens, auth, domains, polls,
                   device, faults>>

\* create_session_token and the cookie.
LoginSession(b) ==
    /\ web[b].pc = "session"
    /\ sessions' = [sessions EXCEPT ![b] = web[b].user]
    /\ web' = [web EXCEPT ![b] = WebIdle]
    /\ UNCHANGED <<users, approvals, rejections, tokens, auth, domains, polls,
                   device, faults>>

\* logout_handler, in any tab: a handler that has looked the session up goes on.
Logout(b) ==
    /\ sessions[b] # None
    /\ sessions' = [sessions EXCEPT ![b] = None]
    /\ UNCHANGED <<users, web, approvals, rejections, tokens, auth, domains, polls,
                   device, faults>>

-----------------------------------------------------------------------------
(* Approving and rejecting *)

\* post_approve_device_handler up to the check of approve_device_token: the
\* middleware has found the user, the row is read and must be pending.
ApproveRead(b, d) ==
    /\ web[b] = WebIdle /\ sessions[b] # None /\ tokens[d].state = "Pending"
    /\ web' = [web EXCEPT ![b] = [pc |-> "approve", user |-> sessions[b],
                                  code |-> d, copy |-> tokens[d]]]
    /\ approvals' = approvals \cup {<<d, sessions[b]>>}
    /\ UNCHANGED <<users, sessions, rejections, tokens, auth, domains, polls,
                   device, faults>>

\* update_device_token writes the row as it was read, but for the two changes.
ApproveWrite(b) ==
    /\ web[b].pc = "approve"
    /\ tokens' = [tokens EXCEPT ![web[b].code] =
                     [state |-> "Approved", by |-> web[b].user]]
    /\ web' = [web EXCEPT ![b] = WebIdle]
    /\ UNCHANGED <<users, sessions, approvals, rejections, auth, domains, polls,
                   device, faults>>

\* post_reject_device_handler asks for no session.
RejectRead(b, d) ==
    /\ web[b] = WebIdle /\ tokens[d].state = "Pending"
    /\ web' = [web EXCEPT ![b] = [pc |-> "reject", user |-> None, code |-> d,
                                  copy |-> tokens[d]]]
    /\ rejections' = rejections \cup {d}
    /\ UNCHANGED <<users, sessions, approvals, tokens, auth, domains, polls, device,
                   faults>>

RejectWrite(b) ==
    /\ web[b].pc = "reject"
    /\ tokens' = [tokens EXCEPT ![web[b].code] =
                     [state |-> "Rejected", by |-> web[b].copy.by]]
    /\ web' = [web EXCEPT ![b] = WebIdle]
    /\ UNCHANGED <<users, sessions, approvals, rejections, auth, domains, polls,
                   device, faults>>

\* The browser closes the connection, and the handler is dropped where it is.
BrowserLeaves(b) ==
    /\ web[b] # WebIdle
    /\ web' = [web EXCEPT ![b] = WebIdle]
    /\ UNCHANGED <<users, sessions, approvals, rejections, tokens, auth, domains,
                   polls, device, faults>>

-----------------------------------------------------------------------------
(* The device asks for a code and polls *)

\* create_device_token
RequestCode(d) ==
    /\ dev[d] = "start"
    /\ tokens' = [tokens EXCEPT ![d] = [state |-> "Pending", by |-> None]]
    /\ dev' = [dev EXCEPT ![d] = "waiting"]
    /\ UNCHANGED <<browser, auth, domains, polls, current, devToken, devDomain,
                   faults>>

Poll(d) ==
    /\ dev[d] = "waiting"
    /\ \E h \in Handler :
          /\ polls[d][h] = PollIdle
          /\ polls' = [polls EXCEPT ![d][h] =
                           [pc |-> "read", copy |-> NoToken, answer |-> "none"]]
          /\ current' = [current EXCEPT ![d] = h]
    /\ dev' = [dev EXCEPT ![d] = "polling"]
    /\ UNCHANGED <<browser, tokens, auth, domains, devToken, devDomain, faults>>

\* Mutant: a code that is still pending is exchanged as well.
PollRead_AnyState(d, h) ==
    /\ polls[d][h].pc = "read"
    /\ polls' = [polls EXCEPT ![d][h] =
                    [pc |-> "update", copy |-> tokens[d], answer |-> "none"]]
    /\ UNCHANGED <<browser, tokens, auth, domains, device, faults>>

\* poll_device_token up to the check: only an approved code goes on.
PollRead(d, h) ==
    /\ polls[d][h].pc = "read"
    /\ polls' = [polls EXCEPT ![d][h] =
                    IF tokens[d].state = "Approved"
                    THEN [pc |-> "update", copy |-> tokens[d], answer |-> "none"]
                    ELSE [pc |-> "reply", copy |-> tokens[d],
                          answer |-> tokens[d].state]]
    /\ UNCHANGED <<browser, tokens, auth, domains, device, faults>>

\* Mutant: the handler answers with the code and leaves the token for later.
PollUpdate_Replies(d, h) ==
    /\ polls[d][h].pc = "update"
    /\ tokens' = [tokens EXCEPT ![d] =
                     [state |-> "Exchanged", by |-> polls[d][h].copy.by]]
    /\ polls' = [polls EXCEPT ![d][h] =
                    [pc |-> "reply", copy |-> polls[d][h].copy, answer |-> "Exchanged"]]
    /\ UNCHANGED <<browser, auth, domains, device, faults>>

\* The row is written as it was read, exchanged.
PollUpdate(d, h) ==
    /\ polls[d][h].pc = "update"
    /\ tokens' = [tokens EXCEPT ![d] =
                     [state |-> "Exchanged", by |-> polls[d][h].copy.by]]
    /\ polls' = [polls EXCEPT ![d][h] =
                    [pc |-> "create", copy |-> polls[d][h].copy, answer |-> "none"]]
    /\ UNCHANGED <<browser, auth, domains, device, faults>>

\* Mutant: the token is created for the user that the row names now.
PollCreate_Rereads(d, h) ==
    /\ polls[d][h].pc = "create"
    /\ auth' = auth \cup {[code |-> d, user |-> tokens[d].by]}
    /\ polls' = [polls EXCEPT ![d][h] =
                    [pc |-> "reply", copy |-> polls[d][h].copy, answer |-> "token"]]
    /\ UNCHANGED <<browser, tokens, domains, device, faults>>

\* create_auth_token for the user of the row that was read.
PollCreate(d, h) ==
    /\ polls[d][h].pc = "create"
    /\ auth' = auth \cup {[code |-> d, user |-> polls[d][h].copy.by]}
    /\ polls' = [polls EXCEPT ![d][h] =
                    [pc |-> "reply", copy |-> polls[d][h].copy, answer |-> "token"]]
    /\ UNCHANGED <<browser, tokens, domains, device, faults>>

\* The answer arrives: a token, authorization_pending (poll again), or an error
\* (access_denied, bad_request for an exchanged code) that ends run_device.
PollReply(d, h) ==
    /\ polls[d][h].pc = "reply" /\ current[d] = h
    /\ \/ /\ polls[d][h].answer = "token"
          /\ devToken' = [devToken EXCEPT ![d] =
                             [code |-> d, user |-> polls[d][h].copy.by]]
          /\ dev' = [dev EXCEPT ![d] = "setup"]
       \/ /\ polls[d][h].answer = "Pending"
          /\ dev' = [dev EXCEPT ![d] = "waiting"] /\ UNCHANGED devToken
       \/ /\ polls[d][h].answer \in {"Rejected", "Exchanged"}
          /\ dev' = [dev EXCEPT ![d] = "failed"] /\ UNCHANGED devToken
    /\ polls' = [polls EXCEPT ![d][h] = PollIdle]
    /\ current' = [current EXCEPT ![d] = None]
    /\ UNCHANGED <<browser, tokens, auth, domains, devDomain, faults>>

\* The connection breaks or times out: the device polls again, and the handler,
\* nobody waiting for it, runs on or is dropped at its next await.
PollLost(d) ==
    /\ dev[d] = "polling" /\ Fault
    /\ dev' = [dev EXCEPT ![d] = "waiting"]
    /\ current' = [current EXCEPT ![d] = None]
    /\ UNCHANGED <<browser, tokens, auth, domains, polls, devToken, devDomain>>

PollDropped(d, h) ==
    /\ polls[d][h].pc # "idle" /\ current[d] # h
    /\ polls' = [polls EXCEPT ![d][h] = PollIdle]
    /\ UNCHANGED <<browser, tokens, auth, domains, device, faults>>

\* expires_in has passed on the device. The server does not check expires_at.
Expires(d) ==
    /\ dev[d] = "waiting"
    /\ IF tokens[d].state = "Pending" THEN NoFault ELSE Fault
    /\ dev' = [dev EXCEPT ![d] = "failed"]
    /\ UNCHANGED <<browser, tokens, auth, domains, polls, current, devToken,
                   devDomain>>

-----------------------------------------------------------------------------
(* The device chooses a domain *)

\* /api/test lists the domains of the user: one of them is taken as it is.
ChooseExisting(d, x) ==
    /\ dev[d] = "setup" /\ domains[x] = devToken[d].user
    /\ dev' = [dev EXCEPT ![d] = "done"]
    /\ devDomain' = [devDomain EXCEPT ![d] = x]
    /\ UNCHANGED <<browser, tokens, auth, domains, polls, current, devToken, faults>>

ChooseNew(d, x) ==
    /\ dev[d] = "setup"
    /\ dev' = [dev EXCEPT ![d] = "registering"]
    /\ devDomain' = [devDomain EXCEPT ![d] = x]
    /\ UNCHANGED <<browser, tokens, auth, domains, polls, current, devToken, faults>>

\* Mutant: a row that is there is left alone and the answer is no error.
RegisterDomain_IfMissing(d) ==
    LET x == devDomain[d] IN
    /\ dev[d] = "registering"
    /\ domains' = [domains EXCEPT ![x] = IF @ = None THEN devToken[d].user ELSE @]
    /\ dev' = [dev EXCEPT ![d] = "done"]
    /\ UNCHANGED <<browser, tokens, auth, polls, current, devToken, devDomain, faults>>

\* api_register_domain_handler: the token is looked up, the suffix checked, the
\* row inserted; the unique index refuses a domain that somebody has. The panic
\* of the handler is an error that ends the setup.
RegisterDomain(d) ==
    LET x == devDomain[d] IN
    /\ dev[d] = "registering"
    /\ \/ /\ x \in Available /\ domains[x] = None
          /\ domains' = [domains EXCEPT ![x] = devToken[d].user]
          /\ dev' = [dev EXCEPT ![d] = "done"]
       \/ /\ ~(x \in Available /\ domains[x] = None)
          /\ dev' = [dev EXCEPT ![d] = "failed"] /\ UNCHANGED domains
    /\ UNCHANGED <<browser, tokens, auth, polls, current, devToken, devDomain, faults>>

\* The answer is lost: the domain is registered, the setup ends with an error.
RegisterLost(d) ==
    /\ dev[d] = "registering" /\ Fault
    /\ devDomain[d] \in Available /\ domains[devDomain[d]] = None
    /\ domains' = [domains EXCEPT ![devDomain[d]] = devToken[d].user]
    /\ dev' = [dev EXCEPT ![d] = "failed"]
    /\ UNCHANGED <<browser, tokens, auth, polls, current, devToken, devDomain>>

-----------------------------------------------------------------------------
\* The server ends and starts again with its database: all handlers are gone.
ServerCrash ==
    /\ Fault
    /\ web' = [b \in Browser |-> WebIdle]
    /\ polls' = [d \in Device |-> [h \in Handler |-> PollIdle]]
    /\ dev' = [d \in Device |-> IF dev[d] = "polling" THEN "waiting"
                                ELSE IF dev[d] = "registering" THEN "failed"
                                ELSE dev[d]]
    /\ current' = [d \in Device |-> None]
    /\ UNCHANGED <<users, sessions, approvals, rejections, tokens, auth, domains,
                   devToken, devDomain>>

BrowserStep(b) ==
    \/ \E u \in User : LoginLookup(b, u)
    \/ LoginCreate(b) \/ LoginSession(b) \/ Logout(b)
    \/ \E d \in Device : ApproveRead(b, d) \/ RejectRead(b, d)
    \/ ApproveWrite(b) \/ RejectWrite(b) \/ BrowserLeaves(b)

PollStep(d, h) ==
    PollRead(d, h) \/ PollUpdate(d, h) \/ PollCreate(d, h) \/ PollReply(d, h)

DeviceStep(d) ==
    \/ RequestCode(d) \/ Poll(d) \/ PollLost(d) \/ Expires(d)
    \/ \E h \in Handler : PollStep(d, h) \/ PollDropped(d, h)
    \/ \E x \in Domain : ChooseExisting(d, x) \/ ChooseNew(d, x)
    \/ RegisterDomain(d) \/ RegisterLost(d)

Next ==
    \/ \E b \in Browser : BrowserStep(b)
    \/ \E d \in Device : DeviceStep(d)
    \/ ServerCrash

\* Handlers run on, a device that was told to wait polls again. No person has to
\* do anything.
Fairness ==
    \A d \in Device :
        /\ WF_vars(Poll(d))
        /\ \A h \in Handler : WF_vars(PollStep(d, h)) /\ WF_vars(PollDropped(d, h))

Spec == Init /\ [][Next]_vars /\ Fairness

-----------------------------------------------------------------------------
(* Properties *)

TypeOK ==
    /\ users \subseteq User
    /\ sessions \in [Browser -> User \cup {None}]
    /\ tokens \in [Device -> Token]
    /\ auth \subseteq AuthToken
    /\ domains \in [Domain -> User \cup {None}]
    /\ web \in [Browser -> WebState]
    /\ polls \in [Device -> [Handler -> PollState]]
    /\ dev \in [Device -> {"start", "waiting", "polling", "setup", "registering",
                           "done", "failed"}]
    /\ current \in [Device -> Handler \cup {None}]
    /\ devToken \in [Device -> AuthToken \cup {None}]
    /\ devDomain \in [Device -> Domain \cup {None}]
    /\ approvals \subseteq Device \X User
    /\ rejections \subseteq Device
    /\ faults \in 0..MaxFaults

\* An auth token belongs to a user who approved the code it was exchanged for,
\* whatever other handlers wrote to the row meanwhile (poll_device_token,
\* approve_device_token).
TokenWasApproved == \A t \in auth : <<t.code, t.user>> \in approvals

\* A device that has finished its setup has a token and a domain that the
\* handshake of the tunnel accepts: the token is in the database, its user too,
\* and the domain belongs to that user.
SetupIsUsable ==
    \A d \in Device : dev[d] = "done" =>
        /\ devToken[d] \in auth /\ devToken[d].user \in users
        /\ domains[devDomain[d]] = devToken[d].user

\* A row that names a user was approved by that user, and so was every copy that
\* a handler holds.
RowsAreApproved ==
    /\ \A d \in Device : tokens[d].state = "Approved" =>
           <<d, tokens[d].by>> \in approvals
    /\ \A b \in Browser :
           /\ web[b].pc = "approve" =>
                  web[b].code \in Device /\ <<web[b].code, web[b].user>> \in approvals
           /\ web[b].pc = "reject" => web[b].code \in Device
    /\ \A d \in Device, h \in Handler : polls[d][h].pc \in {"update", "create"} =>
           <<d, polls[d][h].copy.by>> \in approvals
    /\ \A d \in Device, h \in Handler :
           polls[d][h].pc = "reply" /\ polls[d][h].answer = "token" =>
               [code |-> d, user |-> polls[d][h].copy.by] \in auth

\* Whoever approves has a row among the users.
UsersExist ==
    /\ \A b \in Browser :
           /\ sessions[b] # None => sessions[b] \in users
           /\ web[b].pc = "create" => web[b].user \in User
           /\ web[b].pc = "session" => web[b].user \in users
    /\ \A p \in approvals : p[2] \in users

\* A device past the exchange holds a token, and knows the domain it asked for.
DevicesHold ==
    \A d \in Device :
        /\ dev[d] \in {"setup", "registering", "done"} => devToken[d] \in auth
        /\ dev[d] \in {"registering", "done"} => devDomain[d] \in Domain

\* All of it together is preserved by every step of people, devices and handlers.
IndInv ==
    /\ TypeOK /\ TokenWasApproved /\ SetupIsUsable /\ RowsAreApproved /\ UsersExist
    /\ DevicesHold

\* When no answer is lost, nothing crashes and the code does not expire (neither
\* before the approval nor between it and the next poll), a device that is still
\* polling when its code is approved gets its token, unless somebody rejects it.
ApprovedGetsToken ==
    [](faults = 0) =>
        \A d \in Device :
            (tokens[d].state = "Approved" /\ dev[d] \in {"waiting", "polling"})
                ~> (devToken[d] # None \/ d \in rejections)

\* approve_device_token and reject_device_token refuse a code that is not
\* pending: a decision, once made, is not made again.
DecidedOnce ==
    [][\A d \in Device :
          /\ tokens[d].state \in {"Rejected", "Exchanged"} =>
                 tokens'[d].state = tokens[d].state
          /\ tokens[d].state = "Approved" =>
                 tokens'[d].state \in {"Approved", "Exchanged"}]_vars
=============================================================================
