-------------------------- MODULE DeviceFlowProofs --------------------------
(***************************************************************************)
(* Proofs about DeviceFlow: its inductive invariant, and with it that      *)
(* every auth token was approved by its user and that a finished setup is  *)
(* usable, for any number of users, browsers, devices and handlers.        *)
(***************************************************************************)
EXTENDS DeviceFlow, TLAPS

(* The users of the records that handlers and devices hold. *)

\* A handler that is about to write holds a user and a code, or a copy that names
\* a user.
LEMMA Holders ==
    ASSUME IndInv
    PROVE  /\ \A b \in Browser : web[b].pc = "approve" =>
                  web[b].user \in User /\ web[b].code \in Device
           /\ \A d \in Device, h \in Handler : polls[d][h].pc \in {"update", "create"} =>
                  polls[d][h].copy.by \in User
           /\ \A d \in Device : dev[d] \in {"setup", "registering", "done"} =>
                  devToken[d] \in AuthToken /\ devToken[d].user \in users
<1>1. approvals \subseteq Device \X User /\ auth \subseteq AuthToken
  BY DEF IndInv, TypeOK
<1>2. \A d, u : <<d, u>> \in approvals => d \in Device /\ u \in User /\ u \in users
  BY <1>1 DEF IndInv, UsersExist
<1>3. \A t \in auth : t.user \in users
  BY <1>2 DEF IndInv, TokenWasApproved
<1>4. \A b \in Browser : web[b].pc = "approve" =>
          web[b].user \in User /\ web[b].code \in Device
  BY <1>2 DEF IndInv, RowsAreApproved
<1>5. \A d \in Device, h \in Handler : polls[d][h].pc \in {"update", "create"} =>
          polls[d][h].copy.by \in User
  BY <1>2 DEF IndInv, RowsAreApproved
<1>6. \A d \in Device : dev[d] \in {"setup", "registering", "done"} =>
          devToken[d] \in AuthToken /\ devToken[d].user \in users
  BY <1>1, <1>3 DEF IndInv, DevicesHold
<1> QED
  BY <1>4, <1>5, <1>6

(* Changing the state of one handler keeps the type of polls. *)

\* One handler of one device changes.
LEMMA PollsType ==
    ASSUME NEW p \in [Device -> [Handler -> PollState]], NEW d \in Device,
           NEW h \in Handler, NEW r \in PollState
    PROVE  [p EXCEPT ![d][h] = r] \in [Device -> [Handler -> PollState]]
OBVIOUS

\* The user that is looked up either has a row or is to be created.
LEMMA LoginLookupInv ==
    ASSUME IndInv, NEW b \in Browser, NEW u \in User, LoginLookup(b, u)
    PROVE  IndInv'
<1> USE ConstantsAssumption DEF browser, device, Token, AuthToken, NoToken, WebIdle,
        PollIdle, Fault, NoFault
<1>0. TypeOK /\ TokenWasApproved /\ SetupIsUsable /\ RowsAreApproved
      /\ UsersExist /\ DevicesHold
  BY DEF IndInv
<1>1. TypeOK'
  BY <1>0, Holders DEF TypeOK, WebState, PollState, LoginLookup
<1>2. RowsAreApproved'
  BY <1>0, Holders DEF TypeOK, WebState, PollState, LoginLookup,
     RowsAreApproved
<1>3. UsersExist'
  BY <1>0, Holders DEF TypeOK, LoginLookup, UsersExist
<1>4. TokenWasApproved' /\ SetupIsUsable' /\ DevicesHold'
  BY <1>0 DEF LoginLookup, TokenWasApproved, SetupIsUsable, DevicesHold
<1> QED
  BY <1>1, <1>2, <1>3, <1>4 DEF IndInv

\* The users only grow.
LEMMA LoginCreateInv ==
    ASSUME IndInv, NEW b \in Browser, LoginCreate(b)
    PROVE  IndInv'
<1> USE ConstantsAssumption DEF browser, device, Token, AuthToken, NoToken, WebIdle,
        PollIdle, Fault, NoFault
<1>0. TypeOK /\ TokenWasApproved /\ SetupIsUsable /\ RowsAreApproved
      /\ UsersExist /\ DevicesHold
  BY DEF IndInv
<1>1. TypeOK'
  <2>1. web[b] \in WebState /\ web[b].user \in User
    BY <1>0 DEF TypeOK, LoginCreate, UsersExist
  <2>2. WebIdle \in WebState /\ [web[b] EXCEPT !.pc = "session"] \in WebState
    BY <2>1 DEF WebState
  <2> QED
    BY <1>0, <2>1, <2>2 DEF TypeOK, LoginCreate
<1>2. SetupIsUsable'
  BY <1>0, Holders DEF TypeOK, LoginCreate, SetupIsUsable, DevicesHold
<1>3. RowsAreApproved'
  BY <1>0, Holders DEF TypeOK, WebState, PollState, LoginCreate,
     RowsAreApproved
<1>4. UsersExist'
  BY <1>0, Holders DEF TypeOK, LoginCreate, UsersExist
<1>5. TokenWasApproved' /\ DevicesHold'
  BY <1>0 DEF LoginCreate, TokenWasApproved, DevicesHold
<1> QED
  BY <1>1, <1>2, <1>3, <1>4, <1>5 DEF IndInv

\* A session is created for a user that has a row.
LEMMA LoginSessionInv ==
    ASSUME IndInv, NEW b \in Browser, LoginSession(b)
    PROVE  IndInv'
<1> USE ConstantsAssumption DEF browser, device, Token, AuthToken, NoToken, WebIdle,
        PollIdle, Fault, NoFault
<1>0. TypeOK /\ TokenWasApproved /\ SetupIsUsable /\ RowsAreApproved
      /\ UsersExist /\ DevicesHold
  BY DEF IndInv
<1>1. TypeOK'
  BY <1>0, Holders DEF TypeOK, WebState, PollState, LoginSession
<1>2. RowsAreApproved'
  BY <1>0, Holders DEF TypeOK, WebState, PollState, LoginSession,
     RowsAreApproved
<1>3. UsersExist'
  BY <1>0, Holders DEF TypeOK, LoginSession, UsersExist
<1>4. TokenWasApproved' /\ SetupIsUsable' /\ DevicesHold'
  BY <1>0 DEF LoginSession, TokenWasApproved, SetupIsUsable, DevicesHold
<1> QED
  BY <1>1, <1>2, <1>3, <1>4 DEF IndInv

\* A session less disturbs nobody.
LEMMA LogoutInv ==
    ASSUME IndInv, NEW b \in Browser, Logout(b)
    PROVE  IndInv'
<1> USE ConstantsAssumption DEF browser, device, Token, AuthToken, NoToken, WebIdle,
        PollIdle, Fault, NoFault
<1>0. TypeOK /\ TokenWasApproved /\ SetupIsUsable /\ RowsAreApproved
      /\ UsersExist /\ DevicesHold
  BY DEF IndInv
<1>1. TypeOK'
  BY <1>0, Holders DEF TypeOK, WebState, PollState, Logout
<1>2. UsersExist'
  BY <1>0, Holders DEF TypeOK, Logout, UsersExist
<1>3. TokenWasApproved' /\ SetupIsUsable' /\ RowsAreApproved' /\ DevicesHold'
  BY <1>0 DEF Logout, TokenWasApproved, SetupIsUsable, RowsAreApproved,
     DevicesHold
<1> QED
  BY <1>1, <1>2, <1>3 DEF IndInv

\* The approval is on record when the handler holds its copy.
LEMMA ApproveReadInv ==
    ASSUME IndInv, NEW b \in Browser, NEW d \in Device, ApproveRead(b, d)
    PROVE  IndInv'
<1> USE ConstantsAssumption DEF browser, device, Token, AuthToken, NoToken, WebIdle,
        PollIdle, Fault, NoFault
<1>0. TypeOK /\ TokenWasApproved /\ SetupIsUsable /\ RowsAreApproved
      /\ UsersExist /\ DevicesHold
  BY DEF IndInv
<1>1. TypeOK'
  BY <1>0, Holders DEF TypeOK, WebState, PollState, ApproveRead
<1>2. TokenWasApproved'
  BY <1>0, Holders DEF TypeOK, ApproveRead, TokenWasApproved
<1>3. RowsAreApproved'
  BY <1>0, Holders DEF TypeOK, WebState, PollState, ApproveRead,
     RowsAreApproved
<1>4. UsersExist'
  BY <1>0, Holders DEF TypeOK, ApproveRead, UsersExist
<1>5. SetupIsUsable' /\ DevicesHold'
  BY <1>0 DEF ApproveRead, SetupIsUsable, DevicesHold
<1> QED
  BY <1>1, <1>2, <1>3, <1>4, <1>5 DEF IndInv

\* What the row says now was submitted, whatever it said before.
LEMMA ApproveWriteInv ==
    ASSUME IndInv, NEW b \in Browser, ApproveWrite(b)
    PROVE  IndInv'
<1> USE ConstantsAssumption DEF browser, device, Token, AuthToken, NoToken, WebIdle,
        PollIdle, Fault, NoFault
<1>0. TypeOK /\ TokenWasApproved /\ SetupIsUsable /\ RowsAreApproved
      /\ UsersExist /\ DevicesHold
  BY DEF IndInv
<1>1. TypeOK'
  BY <1>0, Holders DEF TypeOK, WebState, PollState, ApproveWrite
<1>2. RowsAreApproved'
  BY <1>0, Holders DEF TypeOK, WebState, PollState, ApproveWrite,
     RowsAreApproved
<1>3. UsersExist'
  BY <1>0, Holders DEF TypeOK, ApproveWrite, UsersExist
<1>4. TokenWasApproved' /\ SetupIsUsable' /\ DevicesHold'
  BY <1>0 DEF ApproveWrite, TokenWasApproved, SetupIsUsable, DevicesHold
<1> QED
  BY <1>1, <1>2, <1>3, <1>4 DEF IndInv

\* A rejection needs no user.
LEMMA RejectReadInv ==
    ASSUME IndInv, NEW b \in Browser, NEW d \in Device, RejectRead(b, d)
    PROVE  IndInv'
<1> USE ConstantsAssumption DEF browser, device, Token, AuthToken, NoToken, WebIdle,
        PollIdle, Fault, NoFault
<1>0. TypeOK /\ TokenWasApproved /\ SetupIsUsable /\ RowsAreApproved
      /\ UsersExist /\ DevicesHold
  BY DEF IndInv
<1>1. TypeOK'
  BY <1>0, Holders DEF TypeOK, WebState, PollState, RejectRead
<1>2. RowsAreApproved'
  BY <1>0, Holders DEF TypeOK, WebState, PollState, RejectRead,
     RowsAreApproved
<1>3. UsersExist'
  BY <1>0, Holders DEF TypeOK, RejectRead, UsersExist
<1>4. TokenWasApproved' /\ SetupIsUsable' /\ DevicesHold'
  BY <1>0 DEF RejectRead, TokenWasApproved, SetupIsUsable, DevicesHold
<1> QED
  BY <1>1, <1>2, <1>3, <1>4 DEF IndInv

\* A rejected row promises nothing, so its user may be stale.
LEMMA RejectWriteInv ==
    ASSUME IndInv, NEW b \in Browser, RejectWrite(b)
    PROVE  IndInv'
<1> USE ConstantsAssumption DEF browser, device, Token, AuthToken, NoToken, WebIdle,
        PollIdle, Fault, NoFault
<1>0. TypeOK /\ TokenWasApproved /\ SetupIsUsable /\ RowsAreApproved
      /\ UsersExist /\ DevicesHold
  BY DEF IndInv
<1>1. TypeOK'
  <2>1. web[b].code \in Device
    BY <1>0 DEF RejectWrite, RowsAreApproved
  <2>2. WebIdle \in WebState /\ web[b].copy.by \in User \cup {None}
    BY <1>0 DEF TypeOK, WebState
  <2> QED
    BY <1>0, <2>1, <2>2 DEF TypeOK, RejectWrite
<1>2. RowsAreApproved'
  BY <1>0, Holders DEF TypeOK, WebState, PollState, RejectWrite,
     RowsAreApproved
<1>3. UsersExist'
  BY <1>0, Holders DEF TypeOK, RejectWrite, UsersExist
<1>4. TokenWasApproved' /\ SetupIsUsable' /\ DevicesHold'
  BY <1>0 DEF RejectWrite, TokenWasApproved, SetupIsUsable, DevicesHold
<1> QED
  BY <1>1, <1>2, <1>3, <1>4 DEF IndInv

\* An idle handler promises nothing.
LEMMA BrowserLeavesInv ==
    ASSUME IndInv, NEW b \in Browser, BrowserLeaves(b)
    PROVE  IndInv'
<1> USE ConstantsAssumption DEF browser, device, Token, AuthToken, NoToken, WebIdle,
        PollIdle, Fault, NoFault
<1>0. TypeOK /\ TokenWasApproved /\ SetupIsUsable /\ RowsAreApproved
      /\ UsersExist /\ DevicesHold
  BY DEF IndInv
<1>1. TypeOK'
  BY <1>0, Holders DEF TypeOK, WebState, PollState, BrowserLeaves
<1>2. RowsAreApproved'
  BY <1>0, Holders DEF TypeOK, WebState, PollState, BrowserLeaves,
     RowsAreApproved
<1>3. UsersExist'
  BY <1>0, Holders DEF TypeOK, BrowserLeaves, UsersExist
<1>4. TokenWasApproved' /\ SetupIsUsable' /\ DevicesHold'
  BY <1>0 DEF BrowserLeaves, TokenWasApproved, SetupIsUsable, DevicesHold
<1> QED
  BY <1>1, <1>2, <1>3, <1>4 DEF IndInv

\* The row of a new code is pending.
LEMMA RequestCodeInv ==
    ASSUME IndInv, NEW d \in Device, RequestCode(d)
    PROVE  IndInv'
<1> USE ConstantsAssumption DEF browser, device, Token, AuthToken, NoToken, WebIdle,
        PollIdle, Fault, NoFault
<1>0. TypeOK /\ TokenWasApproved /\ SetupIsUsable /\ RowsAreApproved
      /\ UsersExist /\ DevicesHold
  BY DEF IndInv
<1>1. TypeOK'
  BY <1>0, Holders DEF TypeOK, WebState, PollState, RequestCode
<1>2. SetupIsUsable'
  BY <1>0, Holders DEF TypeOK, RequestCode, SetupIsUsable, DevicesHold
<1>3. RowsAreApproved'
  BY <1>0, Holders DEF TypeOK, WebState, PollState, RequestCode,
     RowsAreApproved
<1>4. DevicesHold'
  BY <1>0, Holders DEF TypeOK, RequestCode, DevicesHold
<1>5. TokenWasApproved' /\ UsersExist'
  BY <1>0 DEF RequestCode, TokenWasApproved, UsersExist
<1> QED
  BY <1>1, <1>2, <1>3, <1>4, <1>5 DEF IndInv

\* A handler that has not read yet promises nothing.
LEMMA PollInv ==
    ASSUME IndInv, NEW d \in Device, Poll(d)
    PROVE  IndInv'
<1> USE ConstantsAssumption DEF browser, device, Token, AuthToken, NoToken, WebIdle,
        PollIdle, Fault, NoFault
<1>0. TypeOK /\ TokenWasApproved /\ SetupIsUsable /\ RowsAreApproved
      /\ UsersExist /\ DevicesHold
  BY DEF IndInv
<1>1. TypeOK'
  <2>1. [pc |-> "read", copy |-> NoToken, answer |-> "none"] \in PollState
    BY DEF PollState
  <2>2. polls' \in [Device -> [Handler -> PollState]]
    BY <1>0, <2>1, PollsType DEF TypeOK, Poll
  <2> QED
    BY <1>0, <2>2 DEF TypeOK, Poll
<1>2. SetupIsUsable'
  BY <1>0, Holders DEF TypeOK, Poll, SetupIsUsable, DevicesHold
<1>3. RowsAreApproved'
  BY <1>0, Holders DEF TypeOK, WebState, PollState, Poll, RowsAreApproved
<1>4. DevicesHold'
  BY <1>0, Holders DEF TypeOK, Poll, DevicesHold
<1>5. TokenWasApproved' /\ UsersExist'
  BY <1>0 DEF Poll, TokenWasApproved, UsersExist
<1> QED
  BY <1>1, <1>2, <1>3, <1>4, <1>5 DEF IndInv

\* The copy of an approved row names the user who approved it.
LEMMA PollReadInv ==
    ASSUME IndInv, NEW d \in Device, NEW h \in Handler, PollRead(d, h)
    PROVE  IndInv'
<1> USE ConstantsAssumption DEF browser, device, Token, AuthToken, NoToken, WebIdle,
        PollIdle, Fault, NoFault
<1>0. TypeOK /\ TokenWasApproved /\ SetupIsUsable /\ RowsAreApproved
      /\ UsersExist /\ DevicesHold
  BY DEF IndInv
<1>1. TypeOK'
  BY <1>0, Holders DEF TypeOK, WebState, PollState, PollRead
<1>2. RowsAreApproved'
  BY <1>0, Holders DEF TypeOK, WebState, PollState, PollRead,
     RowsAreApproved
<1>3. TokenWasApproved' /\ SetupIsUsable' /\ UsersExist' /\ DevicesHold'
  BY <1>0 DEF PollRead, TokenWasApproved, SetupIsUsable, UsersExist,
     DevicesHold
<1> QED
  BY <1>1, <1>2, <1>3 DEF IndInv

\* The copy is kept, the row is exchanged.
LEMMA PollUpdateInv ==
    ASSUME IndInv, NEW d \in Device, NEW h \in Handler, PollUpdate(d, h)
    PROVE  IndInv'
<1> USE ConstantsAssumption DEF browser, device, Token, AuthToken, NoToken, WebIdle,
        PollIdle, Fault, NoFault
<1>0. TypeOK /\ TokenWasApproved /\ SetupIsUsable /\ RowsAreApproved
      /\ UsersExist /\ DevicesHold
  BY DEF IndInv
<1>1. TypeOK'
  <2>1. /\ polls[d][h].copy \in Token /\ polls[d][h].copy.by \in User \cup {None}
        /\ [pc |-> "create", copy |-> polls[d][h].copy, answer |-> "none"] \in PollState
    BY <1>0 DEF TypeOK, PollState
  <2>2. polls' \in [Device -> [Handler -> PollState]]
    BY <1>0, <2>1, PollsType DEF TypeOK, PollUpdate
  <2> QED
    BY <1>0, <2>1, <2>2 DEF TypeOK, PollUpdate
<1>2. RowsAreApproved'
  BY <1>0, Holders DEF TypeOK, WebState, PollState, PollUpdate,
     RowsAreApproved
<1>3. TokenWasApproved' /\ SetupIsUsable' /\ UsersExist' /\ DevicesHold'
  BY <1>0 DEF PollUpdate, TokenWasApproved, SetupIsUsable, UsersExist,
     DevicesHold
<1> QED
  BY <1>1, <1>2, <1>3 DEF IndInv

\* The token is created from the copy, not from the row.
LEMMA PollCreateInv ==
    ASSUME IndInv, NEW d \in Device, NEW h \in Handler, PollCreate(d, h)
    PROVE  IndInv'
<1> USE ConstantsAssumption DEF browser, device, Token, AuthToken, NoToken, WebIdle,
        PollIdle, Fault, NoFault
<1>0. TypeOK /\ TokenWasApproved /\ SetupIsUsable /\ RowsAreApproved
      /\ UsersExist /\ DevicesHold
  BY DEF IndInv
<1>1. TypeOK'
  <2>1. [pc |-> "reply", copy |-> polls[d][h].copy, answer |-> "token"] \in PollState
    BY <1>0 DEF TypeOK, PollState
  <2>2. polls' \in [Device -> [Handler -> PollState]]
    BY <1>0, <2>1, PollsType DEF TypeOK, PollCreate
  <2>3. polls[d][h].copy.by \in User
    BY Holders DEF PollCreate
  <2> QED
    BY <1>0, <2>2, <2>3 DEF TypeOK, PollCreate
<1>2. TokenWasApproved'
  <2>1. <<d, polls[d][h].copy.by>> \in approvals
    BY <1>0 DEF PollCreate, RowsAreApproved
  <2>2. auth' = auth \cup {[code |-> d, user |-> polls[d][h].copy.by]}
        /\ approvals' = approvals
    BY DEF PollCreate
  <2>3. ASSUME NEW t \in auth' PROVE <<t.code, t.user>> \in approvals
    <3>1. CASE t \in auth
      BY <1>0, <3>1 DEF TokenWasApproved
    <3>2. CASE t = [code |-> d, user |-> polls[d][h].copy.by]
      BY <2>1, <3>2
    <3> QED
      BY <2>2, <3>1, <3>2
  <2> QED
    BY <2>2, <2>3 DEF TokenWasApproved
<1>3. SetupIsUsable'
  BY <1>0, Holders DEF TypeOK, PollCreate, SetupIsUsable, DevicesHold
<1>4. RowsAreApproved'
  BY <1>0, Holders DEF TypeOK, WebState, PollState, PollCreate,
     RowsAreApproved
<1>5. DevicesHold'
  BY <1>0, Holders DEF TypeOK, PollCreate, DevicesHold
<1>6. UsersExist'
  BY <1>0 DEF PollCreate, UsersExist
<1> QED
  BY <1>1, <1>2, <1>3, <1>4, <1>5, <1>6 DEF IndInv

\* The answer is a token that is in the database.
LEMMA PollReplyInv ==
    ASSUME IndInv, NEW d \in Device, NEW h \in Handler, PollReply(d, h)
    PROVE  IndInv'
<1> USE ConstantsAssumption DEF browser, device, Token, AuthToken, NoToken, WebIdle,
        PollIdle, Fault, NoFault
<1>0. TypeOK /\ TokenWasApproved /\ SetupIsUsable /\ RowsAreApproved
      /\ UsersExist /\ DevicesHold
  BY DEF IndInv
<1>1. TypeOK'
  <2>1. polls' \in [Device -> [Handler -> PollState]]
    BY <1>0, PollsType DEF TypeOK, PollReply, PollState
  <2>2. devToken' \in [Device -> AuthToken \cup {None}]
    <3>1. polls[d][h].answer = "token" =>
              [code |-> d, user |-> polls[d][h].copy.by] \in AuthToken
      BY <1>0 DEF TypeOK, PollReply, RowsAreApproved
    <3> QED
      BY <1>0, <3>1 DEF TypeOK, PollReply
  <2> QED
    BY <1>0, <2>1, <2>2 DEF TypeOK, PollReply
<1>2. SetupIsUsable'
  BY <1>0, Holders DEF TypeOK, PollReply, SetupIsUsable, DevicesHold
<1>3. RowsAreApproved'
  BY <1>0, Holders DEF TypeOK, WebState, PollState, PollReply,
     RowsAreApproved
<1>4. DevicesHold'
  BY <1>0 DEF TypeOK, PollReply, DevicesHold, RowsAreApproved
<1>5. TokenWasApproved' /\ UsersExist'
  BY <1>0 DEF PollReply, TokenWasApproved, UsersExist
<1> QED
  BY <1>1, <1>2, <1>3, <1>4, <1>5 DEF IndInv

\* A device that polls again has no token yet.
LEMMA PollLostInv ==
    ASSUME IndInv, NEW d \in Device, PollLost(d)
    PROVE  IndInv'
<1> USE ConstantsAssumption DEF browser, device, Token, AuthToken, NoToken, WebIdle,
        PollIdle, Fault, NoFault
<1>0. TypeOK /\ TokenWasApproved /\ SetupIsUsable /\ RowsAreApproved
      /\ UsersExist /\ DevicesHold
  BY DEF IndInv
<1>1. TypeOK'
  BY <1>0, Holders DEF TypeOK, WebState, PollState, PollLost
<1>2. SetupIsUsable'
  BY <1>0, Holders DEF TypeOK, PollLost, SetupIsUsable, DevicesHold
<1>3. DevicesHold'
  BY <1>0, Holders DEF TypeOK, PollLost, DevicesHold
<1>4. TokenWasApproved' /\ RowsAreApproved' /\ UsersExist'
  BY <1>0 DEF PollLost, TokenWasApproved, RowsAreApproved, UsersExist
<1> QED
  BY <1>1, <1>2, <1>3, <1>4 DEF IndInv

\* An idle handler promises nothing.
LEMMA PollDroppedInv ==
    ASSUME IndInv, NEW d \in Device, NEW h \in Handler, PollDropped(d, h)
    PROVE  IndInv'
<1> USE ConstantsAssumption DEF browser, device, Token, AuthToken, NoToken, WebIdle,
        PollIdle, Fault, NoFault
<1>0. TypeOK /\ TokenWasApproved /\ SetupIsUsable /\ RowsAreApproved
      /\ UsersExist /\ DevicesHold
  BY DEF IndInv
<1>1. TypeOK'
  BY <1>0, Holders DEF TypeOK, WebState, PollState, PollDropped
<1>2. RowsAreApproved'
  BY <1>0, Holders DEF TypeOK, WebState, PollState, PollDropped,
     RowsAreApproved
<1>3. TokenWasApproved' /\ SetupIsUsable' /\ UsersExist' /\ DevicesHold'
  BY <1>0 DEF PollDropped, TokenWasApproved, SetupIsUsable, UsersExist,
     DevicesHold
<1> QED
  BY <1>1, <1>2, <1>3 DEF IndInv

\* A device that gave up promises nothing.
LEMMA ExpiresInv ==
    ASSUME IndInv, NEW d \in Device, Expires(d)
    PROVE  IndInv'
<1> USE ConstantsAssumption DEF browser, device, Token, AuthToken, NoToken, WebIdle,
        PollIdle, Fault, NoFault
<1>0. TypeOK /\ TokenWasApproved /\ SetupIsUsable /\ RowsAreApproved
      /\ UsersExist /\ DevicesHold
  BY DEF IndInv
<1>1. TypeOK'
  BY <1>0, Holders DEF TypeOK, WebState, PollState, Expires
<1>2. SetupIsUsable'
  BY <1>0, Holders DEF TypeOK, Expires, SetupIsUsable, DevicesHold
<1>3. DevicesHold'
  BY <1>0, Holders DEF TypeOK, Expires, DevicesHold
<1>4. TokenWasApproved' /\ RowsAreApproved' /\ UsersExist'
  BY <1>0 DEF Expires, TokenWasApproved, RowsAreApproved, UsersExist
<1> QED
  BY <1>1, <1>2, <1>3, <1>4 DEF IndInv

\* The domain is the user's, and domains do not change their owner.
LEMMA ChooseExistingInv ==
    ASSUME IndInv, NEW d \in Device, NEW x \in Domain, ChooseExisting(d, x)
    PROVE  IndInv'
<1> USE ConstantsAssumption DEF browser, device, Token, AuthToken, NoToken, WebIdle,
        PollIdle, Fault, NoFault
<1>0. TypeOK /\ TokenWasApproved /\ SetupIsUsable /\ RowsAreApproved
      /\ UsersExist /\ DevicesHold
  BY DEF IndInv
<1>1. TypeOK'
  BY <1>0, Holders DEF TypeOK, WebState, PollState, ChooseExisting
<1>2. SetupIsUsable'
  BY <1>0, Holders DEF TypeOK, ChooseExisting, SetupIsUsable, DevicesHold
<1>3. DevicesHold'
  BY <1>0, Holders DEF TypeOK, ChooseExisting, DevicesHold
<1>4. TokenWasApproved' /\ RowsAreApproved' /\ UsersExist'
  BY <1>0 DEF ChooseExisting, TokenWasApproved, RowsAreApproved,
     UsersExist
<1> QED
  BY <1>1, <1>2, <1>3, <1>4 DEF IndInv

\* The device remembers the domain it asks for.
LEMMA ChooseNewInv ==
    ASSUME IndInv, NEW d \in Device, NEW x \in Domain, ChooseNew(d, x)
    PROVE  IndInv'
<1> USE ConstantsAssumption DEF browser, device, Token, AuthToken, NoToken, WebIdle,
        PollIdle, Fault, NoFault
<1>0. TypeOK /\ TokenWasApproved /\ SetupIsUsable /\ RowsAreApproved
      /\ UsersExist /\ DevicesHold
  BY DEF IndInv
<1>1. TypeOK'
  BY <1>0, Holders DEF TypeOK, WebState, PollState, ChooseNew
<1>2. SetupIsUsable'
  BY <1>0, Holders DEF TypeOK, ChooseNew, SetupIsUsable, DevicesHold
<1>3. DevicesHold'
  BY <1>0, Holders DEF TypeOK, ChooseNew, DevicesHold
<1>4. TokenWasApproved' /\ RowsAreApproved' /\ UsersExist'
  BY <1>0 DEF ChooseNew, TokenWasApproved, RowsAreApproved, UsersExist
<1> QED
  BY <1>1, <1>2, <1>3, <1>4 DEF IndInv

\* A domain gets an owner only when it had none, so other devices keep theirs.
LEMMA RegisterDomainInv ==
    ASSUME IndInv, NEW d \in Device, RegisterDomain(d)
    PROVE  IndInv'
<1> USE ConstantsAssumption DEF browser, device, Token, AuthToken, NoToken, WebIdle,
        PollIdle, Fault, NoFault
<1>0. TypeOK /\ TokenWasApproved /\ SetupIsUsable /\ RowsAreApproved
      /\ UsersExist /\ DevicesHold
  BY DEF IndInv
<1>1. TypeOK'
  BY <1>0, Holders DEF TypeOK, WebState, PollState, RegisterDomain
<1>2. SetupIsUsable'
  BY <1>0, Holders DEF TypeOK, RegisterDomain, SetupIsUsable, DevicesHold
<1>3. DevicesHold'
  BY <1>0, Holders DEF TypeOK, RegisterDomain, DevicesHold
<1>4. TokenWasApproved' /\ RowsAreApproved' /\ UsersExist'
  BY <1>0 DEF RegisterDomain, TokenWasApproved, RowsAreApproved,
     UsersExist
<1> QED
  BY <1>1, <1>2, <1>3, <1>4 DEF IndInv

\* As for RegisterDomain; the device itself has failed.
LEMMA RegisterLostInv ==
    ASSUME IndInv, NEW d \in Device, RegisterLost(d)
    PROVE  IndInv'
<1> USE ConstantsAssumption DEF browser, device, Token, AuthToken, NoToken, WebIdle,
        PollIdle, Fault, NoFault
<1>0. TypeOK /\ TokenWasApproved /\ SetupIsUsable /\ RowsAreApproved
      /\ UsersExist /\ DevicesHold
  BY DEF IndInv
<1>1. TypeOK'
  BY <1>0, Holders DEF TypeOK, WebState, PollState, RegisterLost
<1>2. SetupIsUsable'
  BY <1>0, Holders DEF TypeOK, RegisterLost, SetupIsUsable, DevicesHold
<1>3. DevicesHold'
  BY <1>0, Holders DEF TypeOK, RegisterLost, DevicesHold
<1>4. TokenWasApproved' /\ RowsAreApproved' /\ UsersExist'
  BY <1>0 DEF RegisterLost, TokenWasApproved, RowsAreApproved, UsersExist
<1> QED
  BY <1>1, <1>2, <1>3, <1>4 DEF IndInv

\* Handlers are gone, the database stays.
LEMMA ServerCrashInv ==
    ASSUME IndInv, ServerCrash
    PROVE  IndInv'
<1> USE ConstantsAssumption DEF browser, device, Token, AuthToken, NoToken, WebIdle,
        PollIdle, Fault, NoFault
<1>0. TypeOK /\ TokenWasApproved /\ SetupIsUsable /\ RowsAreApproved
      /\ UsersExist /\ DevicesHold
  BY DEF IndInv
<1>1. TypeOK'
  BY <1>0, Holders DEF TypeOK, WebState, PollState, ServerCrash
<1>2. SetupIsUsable'
  BY <1>0, Holders DEF TypeOK, ServerCrash, SetupIsUsable, DevicesHold
<1>3. RowsAreApproved'
  BY <1>0, Holders DEF TypeOK, WebState, PollState, ServerCrash,
     RowsAreApproved
<1>4. UsersExist'
  BY <1>0, Holders DEF TypeOK, ServerCrash, UsersExist
<1>5. DevicesHold'
  BY <1>0, Holders DEF TypeOK, ServerCrash, DevicesHold
<1>6. TokenWasApproved'
  BY <1>0 DEF ServerCrash, TokenWasApproved
<1> QED
  BY <1>1, <1>2, <1>3, <1>4, <1>5, <1>6 DEF IndInv

-----------------------------------------------------------------------------
\* The database starts with the owners of the registered domains as users.
LEMMA InitInv == Init => IndInv
BY ConstantsAssumption DEF Init, IndInv, TypeOK, TokenWasApproved, SetupIsUsable,
   RowsAreApproved, UsersExist, DevicesHold, Token, AuthToken, WebState, PollState, NoToken,
   WebIdle, PollIdle

\* The steps of the server for a browser.
LEMMA BrowserInv ==
    ASSUME IndInv, NEW b \in Browser, BrowserStep(b)
    PROVE  IndInv'
BY LoginLookupInv, LoginCreateInv, LoginSessionInv, LogoutInv, ApproveReadInv,
   ApproveWriteInv, RejectReadInv, RejectWriteInv, BrowserLeavesInv, Zenon
   DEF BrowserStep

\* The steps of a device and of the server for it.
LEMMA DeviceInv ==
    ASSUME IndInv, NEW d \in Device, DeviceStep(d)
    PROVE  IndInv'
BY RequestCodeInv, PollInv, PollReadInv, PollUpdateInv, PollCreateInv, PollReplyInv,
   PollLostInv, PollDroppedInv, ExpiresInv, ChooseExistingInv, ChooseNewInv,
   RegisterDomainInv, RegisterLostInv, Zenon DEF DeviceStep, PollStep

\* Stuttering.
LEMMA StutterInv ==
    ASSUME IndInv, UNCHANGED vars
    PROVE  IndInv'
BY DEF IndInv, TypeOK, TokenWasApproved, SetupIsUsable, RowsAreApproved, UsersExist,
       DevicesHold, vars, browser, device

\* The invariant of logging in, approving, polling and registering is inductive
\* for every instance, with handlers dropped and the server restarted at any step.
THEOREM Invariance == Spec => []IndInv
<1>1. IndInv /\ [Next]_vars => IndInv'
  BY BrowserInv, DeviceInv, ServerCrashInv, StutterInv, Zenon DEF Next
<1> QED
  BY InitInv, <1>1, PTL DEF Spec

\* An auth token belongs to a user who approved its code, although the handlers
\* of web.rs read, decide and write without a transaction.
THEOREM ApprovedTokens == Spec => []TokenWasApproved
<1>1. IndInv => TokenWasApproved
  BY DEF IndInv
<1> QED
  BY Invariance, <1>1, PTL

\* A device that finished its setup holds a token and a domain that the server
\* accepts, whichever of its polls, registrations and retries were lost
\* (setup.rs, web.rs).
THEOREM UsableSetup == Spec => []SetupIsUsable
<1>1. IndInv => SetupIsUsable
  BY DEF IndInv
<1> QED
  BY Invariance, <1>1, PTL
=============================================================================
