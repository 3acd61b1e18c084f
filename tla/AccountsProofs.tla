--------------------------- MODULE AccountsProofs ---------------------------
(***************************************************************************)
(* What overlapping requests can and cannot do to each other in Accounts,  *)
(* for any number of accounts, requests in progress and tokens: a          *)
(* disabling that has ended leaves no token alive that was saved before    *)
(* it, no answer vouches for a token that was dead when the question came, *)
(* and edits never combine into a client without its key material.         *)
(*                                                                         *)
(* The invariant says of each request in progress what its later steps     *)
(* rely on: a cascade still to come is aimed at the account that was       *)
(* switched off, what a question found dead is still dead, and an UPDATE   *)
(* still to come carries a whole usable row or none of its key columns.    *)
(***************************************************************************)
EXTENDS Accounts, TLAPS

Columns == {"enabled", "rest", "method", "jwks", "jwks_uri"}

AdminPcs == {"write", "delete", "cascade", "audit"}

AdminReq(q) ==
    /\ DOMAIN q = {"pc", "target", "set", "sweep"}
    /\ q = AdminAt(q.pc, q.target, q.set, q.sweep)
    /\ q.pc \in AdminPcs
    /\ q.target \in Accounts

GrantOpen == SUBSET ({"ip", "client_id", "username", "email"} \X (Accounts \cup {Peer, None}))

AskOpen == SUBSET ({"client_id"} \X (Clients \cup {None}))

GrantReq ==
    [pc : {"denylist", "resolve", "username", "email", "new_username", "new_email", "insert",
           "reread", "save"},
     grant : {"credentials", "session", "bearer"}, client : Clients, user : Users \cup {None},
     open : GrantOpen]

AskReq ==
    [pc : {"denylist", "lookup", "answer"}, grant : {"introspect", "userinfo"},
     client : Clients \cup {None}, token : Nat, via : {"access", "refresh"},
     stale : BOOLEAN, open : AskOpen]

Shaped(q) == q = Idle \/ AdminReq(q) \/ q \in GrantReq \/ q \in AskReq

(* What a question about a token found out when it began, and what is left  *)
(* of it when it is about to be answered.                                   *)
Honest(q) ==
    /\ q.token \in DOMAIN tokens
    /\ q.stale => Stale(q.token, q.via)
    /\ q.pc = "answer" => ~q.stale
    /\ q.pc = "denylist" => q.grant = "introspect"

(* An UPDATE writes the key columns of a client together or not at all.     *)
Whole(set) ==
    \/ DOMAIN set = Columns /\ Usable(set)
    \/ DOMAIN set \cap {"method", "jwks", "jwks_uri"} = {}

Sound(r) ==
    /\ Shaped(req[r])
    /\ req[r] \in AskReq => Honest(req[r])
    /\ req[r].pc = "write" /\ req[r].target \in Clients => Whole(req[r].set)

(* The account whose disabling waits for its cascade.                       *)
Aimed(r) ==
    /\ wrote[r] \subseteq Off
    /\ wrote[r] # {} => req[r].pc = "cascade" /\ wrote[r] = {req[r].target}

Rows ==
    /\ DOMAIN accounts = Accounts
    /\ \A c \in Clients : Exists(c) => DOMAIN accounts[c] = Columns

IInv ==
    /\ Rows
    /\ tokens \in Seq(Token)
    /\ DOMAIN req = Requests
    /\ \A r \in Requests : Sound(r) /\ Aimed(r)
    /\ settled \subseteq Off
    /\ DisableRevokes
-----------------------------------------------------------------------------
(* What every step does to the tokens: none is revived, prolonged or given  *)
(* to somebody else, and what is new was not saved with an account on that  *)
(* is off.                                                                  *)
Keeps ==
    /\ tokens' \in Seq(Token)
    /\ \A i \in DOMAIN tokens :
          /\ i \in DOMAIN tokens'
          /\ tokens'[i].on = tokens[i].on
          /\ Parties(tokens'[i]) \subseteq Parties(tokens[i])
          /\ tokens[i].revoked => tokens'[i].revoked
          /\ tokens'[i].values \subseteq tokens[i].values
    /\ \A i \in DOMAIN tokens' \ DOMAIN tokens : tokens'[i].on \cap Off' = {}

LEMMA UnchangedKeeps ==
  ASSUME IInv, UNCHANGED tokens
  PROVE  Keeps
BY DEF IInv, Keeps

GrantStep(r) ==
    \/ \E c \in Clients : AskToken(r, c)
    \/ ClientDenylist(r) \/ ResolveSubject(r) \/ SubjectDenylist(r)
    \/ Provision(r) \/ RereadUser(r) \/ Save(r)

(* What every step does to the requests: what is known of them stays true,  *)
(* only its own steps move a request for a token, a cascade stays aimed at  *)
(* its account until it is done, and when it is done the account has no     *)
(* live token left.                                                         *)
Moves ==
    /\ DOMAIN req' = Requests
    /\ \A s \in Requests :
          /\ Sound(s)'
          /\ req'[s] \in GrantReq => req'[s] = req[s] \/ GrantStep(s)
          /\ req[s].pc = "cascade" /\ req'[s].pc = "cascade" => req'[s] = req[s]
          /\ req[s].pc = "cascade" /\ req'[s].pc = "audit" =>
                \A i \in DOMAIN tokens' :
                   req[s].target \in Parties(tokens'[i]) => tokens'[i].revoked

(* A request that does not move keeps what is known of it.                  *)
LEMMA Elsewhere ==
  ASSUME IInv, Keeps, NEW s \in Requests, req'[s] = req[s]
  PROVE  Sound(s)'
<1>1. Sound(s)
  BY DEF IInv
<1>2. ASSUME req[s] \in AskReq PROVE Honest(req[s])'
  <2>1. Honest(req[s]) /\ req[s].token \in Nat
    BY <1>1, <1>2 DEF Sound, AskReq
  <2> QED BY <2>1 DEF Honest, Keeps, Stale
<1> QED BY <1>1, <1>2 DEF Sound

LEMMA NobodyMoves ==
  ASSUME IInv, Keeps, UNCHANGED req
  PROVE  Moves
<1>1. \A s \in Requests : Sound(s)'
  BY Elsewhere
<1>2. \A s \in Requests : ~(req[s].pc = "cascade" /\ req'[s].pc = "audit")
  OBVIOUS
<1> QED BY <1>1, <1>2 DEF Moves, IInv

(* One request moves, to a place about which the right things are known.    *)
LEMMA OneMoves ==
  ASSUME IInv, Keeps, NEW r \in Requests, NEW q, req' = [req EXCEPT ![r] = q],
         Sound(r)', q \in GrantReq => GrantStep(r),
         req[r].pc = "cascade" => q.pc # "cascade",
         req[r].pc = "cascade" /\ q.pc = "audit" =>
            \A i \in DOMAIN tokens' :
               req[r].target \in Parties(tokens'[i]) => tokens'[i].revoked
  PROVE  Moves
<1>1. /\ DOMAIN req = Requests /\ DOMAIN req' = Requests
      /\ req'[r] = q
      /\ \A s \in Requests : s # r => req'[s] = req[s]
  BY DEF IInv
<1>2. \A s \in Requests : Sound(s)'
  BY <1>1, Elsewhere
<1>3. \A s \in Requests : s # r => ~(req[s].pc = "cascade" /\ req'[s].pc = "audit")
  BY <1>1
<1> QED BY <1>1, <1>2, <1>3 DEF Moves

(* The kinds of request are told apart by their pc or their fields.         *)
LEMMA KindsApart ==
  ASSUME NEW q
  PROVE  /\ Idle \notin AskReq /\ Idle \notin GrantReq /\ Idle.pc = "idle"
         /\ AdminReq(q) => q \notin AskReq /\ q \notin GrantReq /\ q.pc \in AdminPcs
         /\ q \in GrantReq => q \notin AskReq /\ q.pc \notin AdminPcs /\ q.pc # "idle"
         /\ q \in AskReq => q.pc \notin AdminPcs /\ q.pc # "idle"
BY DEF Idle, AskReq, GrantReq, AdminReq, AdminPcs

LEMMA EndMoves ==
  ASSUME IInv, Keeps, NEW r \in Requests, End(r)
  PROVE  Moves
<1>1. req' = [req EXCEPT ![r] = Idle] /\ req'[r] = Idle
  BY DEF End, IInv
<1>2. Sound(r)'
  BY <1>1, KindsApart DEF Sound, Shaped
<1> QED BY Zenon, <1>1, <1>2, OneMoves, KindsApart

LEMMA BeginMoves ==
  ASSUME IInv, UNCHANGED tokens, NEW r \in Requests, NEW first, Begin(r, first), Shaped(first),
         first \in AskReq => Honest(first), first \in GrantReq => GrantStep(r),
         first.pc = "write" /\ first.target \in Clients => Whole(first.set)
  PROVE  Moves
<1>1. /\ req' = [req EXCEPT ![r] = first] /\ req'[r] = first
      /\ req[r] = Idle
  BY DEF Begin, IInv
<1>2. Sound(r)'
  BY <1>1 DEF Sound, Honest, Stale
<1> QED BY Zenon, <1>1, <1>2, OneMoves, KindsApart, UnchangedKeeps

LEMMA GrantMoves ==
  ASSUME IInv, Keeps, NEW r \in Requests, GrantStep(r), req[r] \in GrantReq,
         NEW q \in GrantReq, req' = [req EXCEPT ![r] = q]
  PROVE  Moves
<1>1. req'[r] = q /\ q \notin AskReq /\ q.pc \notin AdminPcs /\ req[r].pc \notin AdminPcs
  BY KindsApart DEF IInv
<1>2. Sound(r)'
  BY <1>1 DEF Sound, Shaped, AdminPcs
<1> QED BY Zenon, <1>1, <1>2, OneMoves DEF AdminPcs

LEMMA AskMoves ==
  ASSUME IInv, UNCHANGED tokens, NEW r \in Requests, req[r] \in AskReq,
         NEW q \in AskReq, req' = [req EXCEPT ![r] = q],
         q.token = req[r].token, q.via = req[r].via, q.stale = req[r].stale,
         q.pc = "answer" => ~q.stale, q.pc # "denylist"
  PROVE  Moves
<1>1. req'[r] = q /\ q.pc \notin AdminPcs /\ req[r].pc \notin AdminPcs
  BY KindsApart DEF IInv
<1>2. Honest(req[r])
  BY DEF IInv, Sound
<1>3. Sound(r)'
  BY <1>1, <1>2 DEF Sound, Shaped, Honest, Stale, AdminPcs
<1> QED BY Zenon, <1>1, <1>3, OneMoves, UnchangedKeeps, KindsApart DEF AdminPcs

(* The requests that can be at a given pc.                                  *)
LEMMA Whereabouts ==
  ASSUME IInv, NEW r \in Requests
  PROVE  /\ req[r].pc \in AdminPcs => AdminReq(req[r])
         /\ req[r].pc \in {"resolve", "username", "email", "new_username", "new_email", "insert",
                           "reread", "save"}
              => req[r] \in GrantReq
         /\ req[r].pc \in {"lookup", "answer"} => req[r] \in AskReq
         /\ req[r].pc = "denylist" => req[r] \in GrantReq \cup AskReq
<1>1. Shaped(req[r])
  BY DEF IInv, Sound
<1>2. CASE req[r] = Idle
  BY <1>2 DEF Idle, AdminPcs
<1>3. CASE AdminReq(req[r])
  BY <1>3 DEF AdminReq, AdminPcs
<1>4. CASE req[r] \in GrantReq
  BY <1>4 DEF GrantReq, AdminPcs
<1>5. CASE req[r] \in AskReq
  BY <1>5 DEF AskReq, AdminPcs
<1> QED BY <1>1, <1>2, <1>3, <1>4, <1>5 DEF Shaped
-----------------------------------------------------------------------------
(* Requests for a token.                                                    *)

LEMMA AskTokenStep ==
  ASSUME IInv, NEW r \in Requests, NEW c \in Clients, AskToken(r, c)
  PROVE  Keeps /\ Moves
<1>1. UNCHANGED tokens
  BY DEF AskToken, store
<1>2. PICK grant \in {"credentials", "session", "bearer"}, u \in Users \cup {None} :
        Begin(r, GrantAt("denylist", grant, c, u, ListedPeer))
  BY DEF AskToken
<1>3. GrantAt("denylist", grant, c, u, ListedPeer) \in GrantReq
  BY DEF GrantAt, GrantReq, GrantOpen, ListedPeer
<1> QED BY Zenon, <1>1, <1>2, <1>3, BeginMoves, UnchangedKeeps, KindsApart DEF Shaped, AdminPcs, GrantStep

LEMMA PassMoves ==
  ASSUME IInv, UNCHANGED tokens, NEW r \in Requests,
         NEW kind \in {"client_id", "username", "email"},
         NEW value \in Accounts \cup {None}, NEW pc,
         req[r] \in GrantReq, [req[r] EXCEPT !.pc = pc] \in GrantReq,
         PassDenylist(r, kind, value, pc), GrantStep(r)
  PROVE  Moves
<1>1. CASE Goto(r, pc)
  BY Zenon, <1>1, GrantMoves, UnchangedKeeps DEF Goto
<1>2. CASE End(r)
  BY <1>2, EndMoves, UnchangedKeeps
<1>3. CASE req' = [req EXCEPT ![r].pc = pc, ![r].open = @ \cup {<<kind, value>>}]
  <2> DEFINE open == req[r].open \cup {<<kind, value>>}
  <2>1. req' = [req EXCEPT ![r] = [req[r] EXCEPT !.pc = pc, !.open = open]]
    BY Zenon, <1>3
  <2>2. open \in GrantOpen
    <3>1. req[r].open \in GrantOpen
      BY Zenon DEF GrantReq
    <3> QED BY <3>1 DEF GrantOpen
  <2> HIDE DEF open
  <2>3. [req[r] EXCEPT !.pc = pc, !.open = open] \in GrantReq
    BY Zenon, <2>2 DEF GrantReq
  <2> QED BY Zenon, <2>1, <2>3, GrantMoves, UnchangedKeeps
<1> QED BY <1>1, <1>2, <1>3 DEF PassDenylist

LEMMA PassAskMoves ==
  ASSUME IInv, UNCHANGED tokens, NEW r \in Requests,
         req[r] \in AskReq, req[r].pc = "denylist",
         PassDenylist(r, "client_id", req[r].client, "lookup")
  PROVE  Moves
<1>1. CASE Goto(r, "lookup")
  <2>1. [req[r] EXCEPT !.pc = "lookup"] \in AskReq
    BY DEF AskReq
  <2> QED BY Zenon, <1>1, <2>1, AskMoves DEF Goto, AskReq
<1>2. CASE End(r)
  BY <1>2, EndMoves, UnchangedKeeps
<1>3. CASE req' = [req EXCEPT ![r].pc = "lookup", ![r].open = @ \cup {<<"client_id", req[r].client>>}]
  <2> DEFINE open == req[r].open \cup {<<"client_id", req[r].client>>}
             q == [req[r] EXCEPT !.pc = "lookup", !.open = open]
  <2>1. req' = [req EXCEPT ![r] = q]
    BY Zenon, <1>3
  <2>2. open \in AskOpen
    <3>1. req[r].open \in AskOpen /\ req[r].client \in Clients \cup {None}
      BY Zenon DEF AskReq
    <3> QED BY <3>1 DEF AskOpen
  <2> HIDE DEF open
  <2>3. /\ q \in AskReq /\ q.token = req[r].token /\ q.via = req[r].via
        /\ q.stale = req[r].stale /\ q.pc = "lookup"
    BY Zenon, <2>2 DEF AskReq
  <2> HIDE DEF q
  <2> QED BY Zenon, <2>1, <2>3, AskMoves
<1> QED BY <1>1, <1>2, <1>3 DEF PassDenylist

LEMMA ClientDenylistStep ==
  ASSUME IInv, NEW r \in Requests, ClientDenylist(r)
  PROVE  Keeps /\ Moves
<1>1. /\ UNCHANGED tokens /\ req[r].pc = "denylist"
      /\ PassDenylist(r, "client_id", req[r].client, AfterClient[req[r].grant])
  BY DEF ClientDenylist, store
<1>2. CASE req[r] \in GrantReq
  <2>1. [req[r] EXCEPT !.pc = AfterClient[req[r].grant]] \in GrantReq
    BY <1>2 DEF GrantReq, AfterClient
  <2>2. req[r].client \in Accounts \cup {None}
    BY Zenon, <1>2 DEF GrantReq, Accounts
  <2> QED BY Zenon, <1>1, <1>2, <2>1, <2>2, PassMoves, UnchangedKeeps DEF GrantStep
<1>3. CASE req[r] \in AskReq
  <2>1. req[r].grant = "introspect"
    BY Zenon, <1>1, <1>3 DEF IInv, Sound, Honest
  <2> QED BY <1>1, <1>3, <2>1, PassAskMoves, UnchangedKeeps DEF AfterClient
<1> QED BY <1>1, <1>2, <1>3, Whereabouts

LEMMA ResolveStep ==
  ASSUME IInv, NEW r \in Requests, ResolveSubject(r)
  PROVE  Keeps /\ Moves
<1>1. UNCHANGED tokens /\ req[r].pc = "resolve"
  BY DEF ResolveSubject, store
<1>2. req[r] \in GrantReq
  BY <1>1, Whereabouts
<1>3. CASE End(r)
  BY <1>1, <1>3, EndMoves, UnchangedKeeps
<1>4. ASSUME NEW pc \in {"username", "new_username"}, Goto(r, pc) PROVE Moves
  <2>1. [req[r] EXCEPT !.pc = pc] \in GrantReq
    BY <1>2 DEF GrantReq
  <2> QED BY Zenon, <1>1, <1>2, <1>4, <2>1, GrantMoves, UnchangedKeeps DEF Goto, GrantStep
<1> QED BY <1>1, <1>3, <1>4, UnchangedKeeps DEF ResolveSubject

LEMMA SubjectDenylistStep ==
  ASSUME IInv, NEW r \in Requests, SubjectDenylist(r)
  PROVE  Keeps /\ Moves
<1>1. UNCHANGED tokens
  BY DEF SubjectDenylist, store
<1>2. PICK kind \in {"username", "email"}, pc \in {"email", "new_email", "save", "insert"} :
        /\ req[r].pc \in {"username", "email", "new_username", "new_email"}
        /\ PassDenylist(r, kind, req[r].user, pc)
  BY Zenon DEF SubjectDenylist
<1>3. req[r] \in GrantReq
  BY <1>2, Whereabouts
<1>4. [req[r] EXCEPT !.pc = pc] \in GrantReq /\ req[r].user \in Accounts \cup {None}
  BY <1>3 DEF GrantReq, Accounts
<1> QED BY <1>1, <1>2, <1>3, <1>4, PassMoves, UnchangedKeeps DEF GrantStep

LEMMA ProvisionStep ==
  ASSUME IInv, NEW r \in Requests, Provision(r)
  PROVE  Keeps /\ Moves
<1>1. /\ UNCHANGED tokens /\ req[r].pc = "insert"
      /\ Goto(r, "save") \/ Goto(r, "reread")
  BY DEF Provision
<1>2. req[r] \in GrantReq
  BY <1>1, Whereabouts
<1>3. ASSUME NEW pc \in {"save", "reread"}, Goto(r, pc) PROVE Moves
  <2>1. [req[r] EXCEPT !.pc = pc] \in GrantReq
    BY <1>2 DEF GrantReq
  <2> QED BY Zenon, <1>1, <1>2, <1>3, <2>1, GrantMoves, UnchangedKeeps DEF Goto, GrantStep
<1> QED BY <1>1, <1>3, UnchangedKeeps

LEMMA RereadStep ==
  ASSUME IInv, NEW r \in Requests, RereadUser(r)
  PROVE  Keeps /\ Moves
<1>1. /\ UNCHANGED tokens /\ req[r].pc = "reread"
      /\ Goto(r, "username") \/ End(r)
  BY DEF RereadUser, store
<1>2. req[r] \in GrantReq
  BY <1>1, Whereabouts
<1>3. [req[r] EXCEPT !.pc = "username"] \in GrantReq
  BY <1>2 DEF GrantReq
<1>4. CASE Goto(r, "username")
  BY Zenon, <1>1, <1>2, <1>3, <1>4, GrantMoves, UnchangedKeeps DEF Goto, GrantStep
<1>5. CASE End(r)
  BY <1>1, <1>5, EndMoves, UnchangedKeeps
<1> QED BY <1>1, <1>4, <1>5, UnchangedKeeps

(* A token is saved with those of its parties on that are not off.          *)
LEMMA SaveStep ==
  ASSUME IInv, NEW r \in Requests, Save(r)
  PROVE  Keeps /\ Moves
<1>1. req[r].pc = "save" /\ End(r) /\ UNCHANGED accounts
  BY DEF Save
<1>2. req[r] \in GrantReq
  BY <1>1, Whereabouts
<1>3. CASE UNCHANGED tokens
  BY <1>1, <1>3, EndMoves, UnchangedKeeps
<1>4. ASSUME NEW t, t \in Token, t.on \cap Off = {}, tokens' = Append(tokens, t) PROVE Keeps
  <2>1. /\ tokens \in Seq(Token) /\ tokens' \in Seq(Token)
        /\ DOMAIN tokens' = 1 .. (Len(tokens) + 1) /\ DOMAIN tokens = 1 .. Len(tokens)
        /\ \A i \in DOMAIN tokens : tokens'[i] = tokens[i]
        /\ tokens'[Len(tokens) + 1] = t
    BY <1>4 DEF IInv
  <2>2. DOMAIN tokens' \ DOMAIN tokens = {Len(tokens) + 1}
    BY <2>1
  <2>3. Off' = Off
    BY <1>1 DEF Off, On, Exists
  <2> QED BY <1>4, <2>1, <2>2, <2>3 DEF Keeps
<1>5. CASE ~UNCHANGED tokens
  <2>1. PICK bound \in BOOLEAN :
          tokens' = Append(tokens,
             [client |-> req[r].client, user |-> req[r].user, bound |-> bound,
              revoked |-> FALSE, on |-> Parties(req[r]) \ Off,
              values |-> IF req[r].grant = "session" THEN {"access", "refresh"} ELSE {"access"}])
    BY Zenon, <1>5 DEF Save
  <2> DEFINE t == [client |-> req[r].client, user |-> req[r].user, bound |-> bound,
              revoked |-> FALSE, on |-> Parties(req[r]) \ Off,
              values |-> IF req[r].grant = "session" THEN {"access", "refresh"} ELSE {"access"}]
  <2>2. Parties(req[r]) \subseteq Accounts
    BY <1>2 DEF GrantReq, Parties, Accounts
  <2>3. t \in Token
    BY <1>2, <2>2 DEF Token, GrantReq
  <2>4. t.on \cap Off = {}
    OBVIOUS
  <2>5. tokens' = Append(tokens, t)
    BY <2>1
  <2> HIDE DEF t
  <2>6. Keeps
    BY <1>4, <2>3, <2>4, <2>5
  <2> QED BY Zenon, <1>1, <2>6, EndMoves
<1> QED BY <1>3, <1>5
-----------------------------------------------------------------------------
(* Questions about a token.                                                 *)

LEMMA AskStep ==
  ASSUME IInv, NEW r \in Requests, (\E c \in Clients : Introspect(r, c)) \/ UserInfo(r)
  PROVE  Keeps /\ Moves
<1>1. UNCHANGED tokens
  BY DEF Introspect, UserInfo, store
<1>2. PICK i \in DOMAIN tokens, via \in {"access", "refresh"}, c \in Clients \cup {None},
           pc \in {"denylist", "lookup"}, ask \in {"introspect", "userinfo"} :
        /\ Begin(r, AskAt(pc, ask, c, i, via, Stale(i, via)))
        /\ pc = "denylist" => ask = "introspect"
  BY DEF Introspect, UserInfo
<1> DEFINE q == AskAt(pc, ask, c, i, via, Stale(i, via))
<1>3. i \in Nat /\ Stale(i, via) \in BOOLEAN
  BY DEF IInv, Stale, Token
<1>4. q \in AskReq /\ q.pc = pc
  BY <1>3 DEF AskAt, AskReq, AskOpen
<1>5. Honest(q)
  BY <1>2 DEF AskAt, Honest
<1> HIDE DEF q
<1>6. Begin(r, q)
  BY <1>2 DEF q
<1> QED BY <1>1, <1>4, <1>5, <1>6, BeginMoves, UnchangedKeeps, KindsApart DEF Shaped, AdminPcs

(* What is granted is alive, so the question did not find it dead.          *)
LEMMA LookupStep ==
  ASSUME IInv, NEW r \in Requests, Lookup(r)
  PROVE  Keeps /\ Moves
<1>1. /\ UNCHANGED tokens /\ req[r].pc = "lookup"
      /\ (Granted(req[r]) /\ Goto(r, "answer")) \/ End(r)
  BY Zenon DEF Lookup, store
<1>2. req[r] \in AskReq /\ Honest(req[r])
  BY Zenon, <1>1, Whereabouts DEF IInv, Sound
<1>3. CASE Granted(req[r]) /\ Goto(r, "answer")
  <2> DEFINE q == [req[r] EXCEPT !.pc = "answer"]
  <2>1. ~req[r].stale
    BY <1>2, <1>3 DEF Granted, IsActive, Honest, Stale
  <2>2. /\ q \in AskReq /\ q.token = req[r].token /\ q.via = req[r].via
        /\ q.stale = req[r].stale /\ q.pc = "answer"
    BY <1>2 DEF AskReq
  <2>3. req' = [req EXCEPT ![r] = q]
    BY <1>3 DEF Goto
  <2> HIDE DEF q
  <2> QED BY Zenon, <1>1, <1>2, <2>1, <2>2, <2>3, AskMoves, UnchangedKeeps
<1>4. CASE End(r)
  BY <1>1, <1>4, EndMoves, UnchangedKeeps
<1> QED BY <1>1, <1>3, <1>4

LEMMA WitherStep ==
  ASSUME IInv, NEW i \in DOMAIN tokens, Wither(i)
  PROVE  Keeps /\ Moves
<1>1. PICK t \in Token :
        /\ tokens' = [tokens EXCEPT ![i] = t]
        /\ t.on = tokens[i].on /\ t.client = tokens[i].client /\ t.user = tokens[i].user
        /\ tokens[i].revoked => t.revoked
        /\ t.values \subseteq tokens[i].values
  <2>1. tokens[i] \in Token
    BY DEF IInv
  <2>2. CASE tokens' = [tokens EXCEPT ![i].revoked = TRUE]
    <3>1. [tokens[i] EXCEPT !.revoked = TRUE] \in Token
      BY Zenon, <2>1 DEF Token
    <3> WITNESS [tokens[i] EXCEPT !.revoked = TRUE] \in Token
    <3> QED BY <2>1, <2>2 DEF Token
  <2>3. ASSUME NEW via \in tokens[i].values, tokens' = [tokens EXCEPT ![i].values = @ \ {via}]
        PROVE  \E t \in Token :
                 /\ tokens' = [tokens EXCEPT ![i] = t]
                 /\ t.on = tokens[i].on /\ t.client = tokens[i].client /\ t.user = tokens[i].user
                 /\ tokens[i].revoked => t.revoked
                 /\ t.values \subseteq tokens[i].values
    <3>1. [tokens[i] EXCEPT !.values = @ \ {via}] \in Token
      BY <2>1 DEF Token
    <3> WITNESS [tokens[i] EXCEPT !.values = @ \ {via}] \in Token
    <3> QED BY <2>1, <2>3 DEF Token
  <2> QED BY <2>2, <2>3 DEF Wither
<1>2. /\ tokens' \in Seq(Token) /\ DOMAIN tokens' = DOMAIN tokens
      /\ tokens'[i] = t /\ \A k \in DOMAIN tokens : k # i => tokens'[k] = tokens[k]
  BY <1>1 DEF IInv
<1>3. Keeps
  BY <1>1, <1>2 DEF Keeps, Parties
<1> QED BY <1>3, NobodyMoves DEF Wither
-----------------------------------------------------------------------------
(* Edits by an administrator.                                               *)

LEMMA EditStep ==
  ASSUME IInv, NEW r \in Requests,
         \/ \E u \in Users : EditUser(r, u) \/ SetUserColumn(r, u)
         \/ \E c \in Clients : EditClient(r, c) \/ RegenerateSecret(r, c)
         \/ \E a \in Accounts : SetEnabled(r, a) \/ BeginDelete(r, a)
  PROVE  Keeps /\ Moves
<1>1. UNCHANGED tokens
  BY Zenon DEF EditUser, SetUserColumn, EditClient, RegenerateSecret, SetEnabled, BeginDelete, store
<1>2. ASSUME NEW pc \in {"write", "delete"}, NEW a \in Accounts, NEW set, NEW sweep,
             Begin(r, AdminAt(pc, a, set, sweep)),
             pc = "write" /\ a \in Clients => Whole(set)
      PROVE  Moves
  <2> DEFINE q == AdminAt(pc, a, set, sweep)
  <2>1. AdminReq(q) /\ q.pc = pc /\ q.target = a /\ q.set = set
    BY DEF AdminAt, AdminReq, AdminPcs
  <2> HIDE DEF q
  <2>2. Begin(r, q)
    BY <1>2 DEF q
  <2> QED BY <1>1, <1>2, <2>1, <2>2, BeginMoves, KindsApart DEF Shaped
<1>3. ASSUME NEW u \in Users, EditUser(r, u) \/ SetUserColumn(r, u) PROVE Moves
  <2>1. u \in Accounts /\ u \notin Clients
    BY AccountsAssumption DEF Accounts
  <2> QED BY <1>2, <1>3, <2>1 DEF EditUser, SetUserColumn
<1>4. ASSUME NEW c \in Clients, EditClient(r, c) PROVE Moves
  <2>1. PICK body \in ClientBodies :
          /\ Usable(Merge(accounts[c], body))
          /\ Begin(r, AdminAt("write", c, Merge(accounts[c], body), Disables(body)))
    BY <1>4 DEF EditClient, Submitted
  <2>2. DOMAIN accounts[c] = Columns
    BY Zenon, <1>4 DEF EditClient, IInv, Rows
  <2>3. Whole(Merge(accounts[c], body))
    BY Zenon, <2>1, <2>2 DEF Whole, Merge
  <2> QED BY <1>2, <2>1, <2>3 DEF Accounts
<1>5. ASSUME NEW c \in Clients, RegenerateSecret(r, c) PROVE Moves
  <2>1. Whole([rest |-> 1])
    BY DEF Whole
  <2> QED BY Zenon, <1>2, <1>5, <2>1 DEF RegenerateSecret, Accounts
<1>6. ASSUME NEW a \in Accounts, SetEnabled(r, a) PROVE Moves
  <2>1. \A enabled \in BOOLEAN : Whole([enabled |-> enabled])
    BY DEF Whole
  <2> QED BY <1>2, <1>6, <2>1 DEF SetEnabled
<1>7. ASSUME NEW a \in Accounts, BeginDelete(r, a) PROVE Moves
  BY <1>2, <1>7 DEF BeginDelete
<1> QED BY <1>1, <1>3, <1>4, <1>5, <1>6, <1>7, UnchangedKeeps

(* An administrator's request goes on to its cascade or to its audit entry. *)
LEMMA AdminMoves ==
  ASSUME IInv, Keeps, NEW r \in Requests, AdminReq(req[r]),
         NEW pc \in {"cascade", "audit"}, Goto(r, pc),
         pc = "cascade" => req[r].pc # "cascade",
         pc = "audit" => \A i \in DOMAIN tokens' :
                            req[r].target \in Parties(tokens'[i]) => tokens'[i].revoked
  PROVE  Moves
<1> DEFINE q == [req[r] EXCEPT !.pc = pc]
<1>1. req' = [req EXCEPT ![r] = q] /\ req'[r] = q
  BY DEF Goto, IInv
<1>2. AdminReq(q) /\ q.pc = pc
  BY DEF AdminReq, AdminAt, AdminPcs
<1> HIDE DEF q
<1>3. Sound(r)'
  BY <1>1, <1>2, KindsApart DEF Sound, Shaped
<1> QED BY Zenon, <1>1, <1>2, <1>3, OneMoves, KindsApart

LEMMA WriteStep ==
  ASSUME IInv, NEW r \in Requests, Write(r)
  PROVE  Keeps /\ Moves
<1>1. /\ UNCHANGED tokens /\ req[r].pc = "write"
      /\ Goto(r, "cascade") \/ End(r)
  BY DEF Write
<1>2. AdminReq(req[r])
  BY Zenon, <1>1, Whereabouts DEF AdminPcs
<1> QED BY <1>1, <1>2, AdminMoves, EndMoves, UnchangedKeeps

LEMMA DeleteUserStep ==
  ASSUME IInv, NEW r \in Requests, DeleteUser(r)
  PROVE  Keeps /\ Moves
<1>1. /\ req[r].pc = "delete" /\ Goto(r, "cascade")
      /\ tokens' = [i \in DOMAIN tokens |->
                      IF tokens[i].user = req[r].target
                      THEN [tokens[i] EXCEPT !.revoked = TRUE, !.user = None]
                      ELSE tokens[i]]
  BY Zenon DEF DeleteUser
<1>2. AdminReq(req[r])
  BY Zenon, <1>1, Whereabouts DEF AdminPcs
<1>3. Keeps
  <2>1. tokens \in Seq(Token) /\ DOMAIN tokens' = DOMAIN tokens
    BY Zenon, <1>1 DEF IInv
  <2>2. ASSUME NEW i \in DOMAIN tokens
        PROVE  /\ tokens'[i] \in Token
               /\ tokens'[i].on = tokens[i].on
               /\ Parties(tokens'[i]) \subseteq Parties(tokens[i])
               /\ tokens[i].revoked => tokens'[i].revoked
               /\ tokens'[i].values \subseteq tokens[i].values
    <3>1. tokens[i] \in Token
      BY <2>1
    <3> QED BY Zenon, <1>1, <3>1 DEF Token, Parties
  <2>3. tokens' \in Seq(Token)
    <3>1. DOMAIN tokens' = 1 .. Len(tokens) /\ Len(tokens) \in Nat
      BY <2>1
    <3>2. tokens' \in [1 .. Len(tokens) -> Token]
      BY Zenon, <1>1, <2>2, <3>1
    <3> QED BY <3>1, <3>2
  <2> QED BY Zenon, <2>1, <2>2, <2>3 DEF Keeps
<1> QED BY Zenon, <1>1, <1>2, <1>3, AdminMoves

LEMMA DeleteClientStep ==
  ASSUME IInv, NEW r \in Requests, DeleteClient(r)
  PROVE  Keeps /\ Moves
BY Zenon, EndMoves, UnchangedKeeps DEF DeleteClient

(* A sweep revokes whatever the account is a party to, and nothing else     *)
(* changes.                                                                 *)
LEMMA SweptTokens ==
  ASSUME IInv, NEW a, tokens' = Swept(a)
  PROVE  /\ Keeps
         /\ \A i \in DOMAIN tokens' : a \in Parties(tokens'[i]) => tokens'[i].revoked
<1>1. tokens \in Seq(Token) /\ DOMAIN tokens' = DOMAIN tokens
  BY DEF IInv, Swept
<1>2. ASSUME NEW i \in DOMAIN tokens
      PROVE  /\ tokens'[i] \in Token
             /\ tokens'[i].on = tokens[i].on
             /\ Parties(tokens'[i]) = Parties(tokens[i])
             /\ tokens'[i].revoked = (tokens[i].revoked \/ i \in TokensOf(a))
             /\ tokens'[i].values = tokens[i].values
  <2>1. tokens[i] \in Token
    BY <1>1
  <2> QED BY Zenon, <2>1 DEF Token, Parties, Swept
<1>3. tokens' \in Seq(Token)
  <2>1. DOMAIN tokens' = 1 .. Len(tokens) /\ Len(tokens) \in Nat
    BY <1>1
  <2>2. tokens' \in [1 .. Len(tokens) -> Token]
    BY Zenon, <1>2, <2>1 DEF Swept
  <2> QED BY <2>1, <2>2
<1>4. Keeps
  BY Zenon, <1>1, <1>2, <1>3 DEF Keeps
<1>5. \A i \in DOMAIN tokens : a \in Parties(tokens[i]) => i \in TokensOf(a)
  BY DEF TokensOf, Parties
<1> QED BY Zenon, <1>1, <1>2, <1>4, <1>5

LEMMA CascadeStep ==
  ASSUME IInv, NEW r \in Requests, Cascade(r)
  PROVE  Keeps /\ Moves
<1>1. AdminReq(req[r]) /\ req[r].pc = "cascade"
  BY Whereabouts DEF Cascade, AdminPcs
<1>2. CASE UNCHANGED tokens /\ End(r)
  BY Zenon, <1>2, EndMoves, UnchangedKeeps
<1>3. CASE tokens' = Swept(req[r].target) /\ Goto(r, "audit")
  BY <1>1, <1>3, SweptTokens, AdminMoves
<1> QED BY Zenon, <1>2, <1>3 DEF Cascade

LEMMA HintedLogoutStep ==
  ASSUME IInv, NEW u \in Users, HintedLogout(u)
  PROVE  Keeps /\ Moves
BY Zenon, SweptTokens, NobodyMoves DEF HintedLogout, Single

LEMMA AnswerStep ==
  ASSUME IInv, NEW r \in Requests, Audit(r) \/ Answer(r)
  PROVE  Keeps /\ Moves
BY EndMoves, UnchangedKeeps DEF Audit, Answer, store

LEMMA SingleStep ==
  ASSUME IInv,
         \/ \E u \in Users : CreateUser(u)
         \/ \E c \in Clients : CreateClient(c) \/ Register(c)
         \/ \E d \in Subjects : AddDenylist(d) \/ DropDenylist(d)
  PROVE  Keeps /\ Moves
<1>1. UNCHANGED tokens /\ UNCHANGED req
  BY DEF CreateUser, CreateClient, Register, AddDenylist, DropDenylist, Single
<1> QED BY <1>1, UnchangedKeeps, NobodyMoves
-----------------------------------------------------------------------------
(* The rows.  A client's key columns change together or not at all.         *)
UsableStays ==
    \A c \in Clients : Exists(c) /\ Usable(accounts[c]) /\ Exists(c)' => Usable(accounts'[c])

LEMMA SameRows ==
  ASSUME IInv, UNCHANGED accounts
  PROVE  Rows' /\ UsableStays
BY DEF IInv, Rows, UsableStays, Exists

LEMMA InsertRows ==
  ASSUME IInv, NEW a \in Accounts, NEW row, Insert(a, row),
         a \in Clients => DOMAIN row = Columns
  PROVE  Rows' /\ UsableStays
BY DEF IInv, Rows, UsableStays, Exists, Insert, Accounts

LEMMA DeleteRows ==
  ASSUME IInv, NEW a \in Accounts, accounts' = [accounts EXCEPT ![a] = None]
  PROVE  Rows' /\ UsableStays
BY DEF IInv, Rows, UsableStays, Exists, Accounts

LEMMA WriteRows ==
  ASSUME IInv, NEW r \in Requests, Write(r)
  PROVE  Rows' /\ UsableStays
<1> DEFINE a == req[r].target
           set == req[r].set
<1>1. AdminReq(req[r]) /\ req[r].pc = "write"
  BY Zenon, Whereabouts DEF Write, AdminPcs
<1>2. a \in Accounts /\ (a \in Clients => Whole(set))
  BY Zenon, <1>1 DEF AdminReq, IInv, Sound
<1>3. CASE ~Exists(a)
  BY Zenon, <1>3, SameRows DEF Write
<1>4. CASE Exists(a)
  <2>1. accounts' = [accounts EXCEPT ![a] = Merge(accounts[a], set)]
    BY Zenon, <1>4 DEF Write
  <2>2. /\ DOMAIN accounts' = Accounts
        /\ accounts'[a] = Merge(accounts[a], set)
        /\ \A b \in Accounts : b # a => accounts'[b] = accounts[b]
    BY Zenon, <1>2, <2>1 DEF IInv, Rows
  <2>3. ASSUME a \in Clients
        PROVE  /\ DOMAIN Merge(accounts[a], set) = Columns
               /\ Usable(accounts[a]) => Usable(Merge(accounts[a], set))
    <3>1. DOMAIN accounts[a] = Columns
      BY Zenon, <1>4, <2>3 DEF IInv, Rows
    <3>2. DOMAIN Merge(accounts[a], set) = Columns
      BY Zenon, <3>1 DEF Merge
    <3>3. CASE DOMAIN set = Columns /\ Usable(set)
      <4>1. \A c \in {"method", "jwks", "jwks_uri"} : Merge(accounts[a], set)[c] = set[c]
        BY Zenon, <3>1, <3>3 DEF Merge, Columns
      <4> QED BY Zenon, <3>2, <3>3, <4>1 DEF Usable
    <3>4. CASE DOMAIN set \cap {"method", "jwks", "jwks_uri"} = {}
      <4>1. \A c \in {"method", "jwks", "jwks_uri"} : Merge(accounts[a], set)[c] = accounts[a][c]
        BY Zenon, <3>1, <3>4 DEF Merge, Columns
      <4> QED BY Zenon, <3>2, <4>1 DEF Usable
    <3> QED BY Zenon, <1>2, <2>3, <3>2, <3>3, <3>4 DEF Whole
  <2> HIDE DEF a, set
  <2> QED BY Zenon, <1>2, <2>2, <2>3 DEF IInv, Rows, UsableStays, Exists, Accounts
<1> QED BY Zenon, <1>3, <1>4

LEMMA StepRows ==
  ASSUME IInv, Step
  PROVE  Rows' /\ UsableStays
<1>1. ASSUME NEW u \in Users, CreateUser(u) PROVE Rows' /\ UsableStays
  <2>1. u \in Accounts /\ u \notin Clients
    BY AccountsAssumption DEF Accounts
  <2> QED BY <1>1, <2>1, InsertRows DEF CreateUser
<1>2. ASSUME NEW c \in Clients, CreateClient(c) \/ Register(c) PROVE Rows' /\ UsableStays
  <2>1. PICK form : Insert(c, NewClient(form))
    BY Zenon, <1>2 DEF CreateClient, Register, Registered
  <2>2. DOMAIN NewClient(form) = Columns
    BY Zenon DEF NewClient, Columns
  <2> QED BY <2>1, <2>2, InsertRows DEF Accounts
<1>3. ASSUME NEW r \in Requests, Provision(r) PROVE Rows' /\ UsableStays
  <2>1. req[r] \in GrantReq
    BY <1>3, Whereabouts DEF Provision
  <2>2. CASE UNCHANGED accounts
    BY <2>2, SameRows
  <2>3. CASE Insert(req[r].user, [enabled |-> TRUE, rest |-> 0])
    <3>1. CASE req[r].user \in Users
      <4>1. req[r].user \in Accounts /\ req[r].user \notin Clients
        BY Zenon, <3>1, AccountsAssumption DEF Accounts
      <4> QED BY Zenon, <2>3, <4>1, InsertRows
    <3>2. CASE req[r].user = None
      <4>1. /\ DOMAIN accounts' = Accounts
            /\ \A a \in Accounts : accounts'[a] = accounts[a]
        BY Zenon, <2>3, <3>2, AccountsAssumption DEF Insert, IInv, Rows
      <4> QED BY Zenon, <4>1 DEF IInv, Rows, UsableStays, Exists, Accounts
    <3> QED BY Zenon, <2>1, <3>1, <3>2 DEF GrantReq
  <2> QED BY <1>3, <2>2, <2>3 DEF Provision
<1>4. ASSUME NEW r \in Requests, DeleteUser(r) \/ DeleteClient(r) PROVE Rows' /\ UsableStays
  <2>1. req[r].target \in Accounts
    BY Zenon, <1>4, Whereabouts DEF DeleteUser, DeleteClient, AdminPcs, AdminReq
  <2> QED BY Zenon, <1>4, <2>1, DeleteRows, SameRows DEF DeleteUser, DeleteClient
<1>5. ASSUME NEW r \in Requests, Write(r) PROVE Rows' /\ UsableStays
  BY <1>5, WriteRows
<1>6. CASE UNCHANGED accounts
  BY Zenon, <1>6, SameRows
<1>7. ASSUME NEW r \in Requests,
             \/ \E u \in Users : EditUser(r, u) \/ SetUserColumn(r, u)
             \/ \E c \in Clients : EditClient(r, c) \/ RegenerateSecret(r, c) \/ AskToken(r, c)
                                   \/ Introspect(r, c)
             \/ \E a \in Accounts : SetEnabled(r, a) \/ BeginDelete(r, a)
             \/ Audit(r) \/ ClientDenylist(r) \/ ResolveSubject(r) \/ SubjectDenylist(r)
             \/ RereadUser(r) \/ UserInfo(r) \/ Lookup(r) \/ Answer(r)
      PROVE  UNCHANGED accounts
  BY Zenon, <1>7 DEF EditUser, SetUserColumn, EditClient, RegenerateSecret, AskToken, Introspect,
              SetEnabled, BeginDelete, Audit, ClientDenylist, ResolveSubject, SubjectDenylist,
              RereadUser, UserInfo, Lookup, Answer, store
<1>8. ASSUME \/ \E d \in Subjects : AddDenylist(d) \/ DropDenylist(d)
             \/ \E u \in Users : HintedLogout(u)
             \/ \E r \in Requests : Cascade(r) \/ Save(r)
             \/ \E i \in DOMAIN tokens : Wither(i)
      PROVE  UNCHANGED accounts
  BY Zenon, <1>8 DEF AddDenylist, DropDenylist, HintedLogout, Cascade, Save, Wither
<1> QED BY <1>1, <1>2, <1>3, <1>4, <1>5, <1>6, <1>7, <1>8 DEF Step

LEMMA StepMoves ==
  ASSUME IInv, Step
  PROVE  Keeps /\ Moves
<1>1. ASSUME NEW r \in Requests,
             \/ \E u \in Users : EditUser(r, u) \/ SetUserColumn(r, u)
             \/ \E c \in Clients : EditClient(r, c) \/ RegenerateSecret(r, c)
             \/ \E a \in Accounts : SetEnabled(r, a) \/ BeginDelete(r, a)
      PROVE  Keeps /\ Moves
  BY <1>1, EditStep
<1>2. ASSUME NEW r \in Requests,
             Write(r) \/ DeleteUser(r) \/ DeleteClient(r) \/ Cascade(r) \/ Audit(r) \/ Answer(r)
      PROVE  Keeps /\ Moves
  BY <1>2, WriteStep, DeleteUserStep, DeleteClientStep, CascadeStep, AnswerStep
<1>3. ASSUME NEW r \in Requests,
             \/ \E c \in Clients : AskToken(r, c)
             \/ ClientDenylist(r) \/ ResolveSubject(r) \/ SubjectDenylist(r)
             \/ Provision(r) \/ RereadUser(r) \/ Save(r)
      PROVE  Keeps /\ Moves
  BY <1>3, AskTokenStep, ClientDenylistStep, ResolveStep, SubjectDenylistStep, ProvisionStep,
     RereadStep, SaveStep
<1>4. ASSUME NEW r \in Requests,
             (\E c \in Clients : Introspect(r, c)) \/ UserInfo(r) \/ Lookup(r)
      PROVE  Keeps /\ Moves
  BY <1>4, AskStep, LookupStep
<1> QED BY <1>1, <1>2, <1>3, <1>4, SingleStep, HintedLogoutStep, WitherStep DEF Step
-----------------------------------------------------------------------------
LEMMA InvInit == Init => IInv
<1> SUFFICES ASSUME Init PROVE IInv
  OBVIOUS
<1>1. Rows
  <2>1. DOMAIN accounts = Accounts
    BY Zenon DEF Init
  <2>2. ASSUME NEW c \in Clients, Exists(c) PROVE DOMAIN accounts[c] = Columns
    <3>1. PICK form : accounts[c] = NewClient(form)
      BY Zenon, <2>2 DEF Init, Exists
    <3> QED BY Zenon, <3>1 DEF NewClient, Columns
  <2> QED BY Zenon, <2>1, <2>2 DEF Rows
<1>2. tokens \in Seq(Token) /\ DOMAIN req = Requests /\ settled \subseteq Off
  BY DEF Init
<1>3. \A r \in Requests : Sound(r) /\ Aimed(r)
  BY Zenon, KindsApart DEF Init, Sound, Shaped, Aimed
<1>4. DisableRevokes
  BY Zenon DEF Init, DisableRevokes
<1> QED BY <1>1, <1>2, <1>3, <1>4 DEF IInv

LEMMA InvNext ==
  ASSUME IInv, Next
  PROVE  IInv'
<1>1. Keeps /\ Moves /\ Rows'
  BY Zenon, StepMoves, StepRows DEF Next
<1>2. /\ wrote' = [r \in Requests |->
                    IF req'[r].pc # "cascade" THEN {}
                    ELSE Off' \cap (IF req[r].pc # "cascade" THEN {req'[r].target} ELSE wrote[r])]
      /\ settled' = Off' \cap (settled \cup
            UNION {wrote[r] : r \in {q \in Requests : req[q].pc = "cascade" /\ req'[q].pc = "audit"}})
  BY Zenon DEF Next, Observe
<1>3. \A r \in Requests : Sound(r)' /\ Aimed(r)'
  <2> SUFFICES ASSUME NEW r \in Requests PROVE Aimed(r)'
    BY Zenon, <1>1 DEF Moves
  <2>1. CASE req'[r].pc # "cascade"
    <3>1. wrote'[r] = {}
      BY Zenon, <1>2, <2>1
    <3> QED BY Zenon, <3>1 DEF Aimed
  <2>2. CASE req'[r].pc = "cascade" /\ req[r].pc # "cascade"
    <3>1. wrote'[r] = {req'[r].target} \cap Off'
      BY Zenon, <1>2, <2>2
    <3> QED BY Zenon, <2>2, <3>1 DEF Aimed
  <2>3. CASE req'[r].pc = "cascade" /\ req[r].pc = "cascade"
    <3>1. wrote'[r] = wrote[r] \cap Off'
      BY Zenon, <1>2, <2>3
    <3>2. req'[r] = req[r] /\ Aimed(r)
      BY Zenon, <1>1, <2>3 DEF Moves, IInv
    <3> QED BY Zenon, <2>3, <3>1, <3>2 DEF Aimed
  <2> QED BY Zenon, <2>1, <2>2, <2>3
<1>4. DisableRevokes'
  <2> SUFFICES ASSUME NEW a \in settled', NEW i \in DOMAIN tokens',
                      a \in tokens'[i].on, a \in Parties(tokens'[i])
               PROVE  tokens'[i].revoked
    BY Zenon DEF DisableRevokes
  <2>1. i \in DOMAIN tokens /\ a \in tokens[i].on /\ a \in Parties(tokens[i])
    BY Zenon, <1>1, <1>2 DEF Keeps
  <2>2. CASE a \in settled
    BY Zenon, <1>1, <2>1, <2>2 DEF IInv, DisableRevokes, Keeps
  <2>3. ASSUME NEW r \in Requests, req[r].pc = "cascade", req'[r].pc = "audit", a \in wrote[r]
        PROVE  tokens'[i].revoked
    <3>1. a = req[r].target
      BY <2>3 DEF IInv, Aimed
    <3> QED BY Zenon, <1>1, <2>3, <3>1 DEF Moves
  <2> QED BY Zenon, <1>2, <2>2, <2>3
<1> QED BY Zenon, <1>1, <1>2, <1>3, <1>4 DEF IInv, Keeps, Moves

THEOREM Inductive == Spec => []IInv
<1>1. IInv /\ [Next]_vars => IInv'
  <2> SUFFICES ASSUME IInv, [Next]_vars PROVE IInv'
    BY ZenonT(40)
  <2>1. CASE UNCHANGED vars
    BY <2>1 DEF vars, IInv, Rows, Exists, Sound, Honest, Stale, Aimed, Off, On, DisableRevokes
  <2> QED BY <2>1, InvNext
<1> QED BY <1>1, InvInit, PTL DEF Spec

(* _best_effort_revoke_by_user and _by_client: when the disabling of an     *)
(* account, or the deletion of a user, has ended well, no token saved while *)
(* the account was on is alive, however many other requests overlap it.     *)
THEOREM DisablingAlwaysRevokes == Spec => []DisableRevokes
BY Inductive, PTL DEF IInv

(* _is_active: introspection and userinfo never vouch for a token value     *)
(* that was revoked or expired when they were asked.                        *)
THEOREM AnswersAlwaysLive == Spec => AnswersLive
<1>1. IInv => [\A r \in Requests : req[r].pc = "answer" /\ req'[r] = Idle => ~req[r].stale]_vars
  BY Whereabouts DEF IInv, Sound, Honest
<1> QED BY <1>1, Inductive, PTL DEF AnswersLive

(* update_client: no interleaving of edits leaves a client without the key  *)
(* material its method needs.                                               *)
THEOREM EditsAlwaysKeepUsable == Spec => EditsKeepUsable
<1>1. IInv /\ [Next]_vars =>
        [\A c \in Clients :
            Exists(c) /\ Usable(accounts[c]) /\ Exists(c)' => Usable(accounts'[c])]_vars
  BY Zenon, StepRows DEF Next, UsableStays
<1> QED BY <1>1, Inductive, PTL DEF EditsKeepUsable, Spec
-----------------------------------------------------------------------------
(* What a request for a token has found out so far: of what stood against   *)
(* it ever since it began, only that is left which it has yet to look for   *)
(* or whose lookup failed.                                                  *)
Clear(r) ==
    LET q == req[r] IN
    q \in GrantReq =>
       /\ IF q.grant = "bearer" THEN q.user \in Users ELSE q.pc \in {"denylist", "save"}
       /\ barred[r] \subseteq Blocks(q)
       /\ <<"off", q.client>> \notin barred[r]
       /\ <<"ip", Peer>> \in barred[r] => <<"ip", Peer>> \in q.open
       /\ <<"client_id", q.client>> \in barred[r] =>
             <<"client_id", q.client>> \in q.open \/ q.pc = "denylist"
       /\ q.grant = "bearer" =>
             /\ <<"off", q.user>> \in barred[r] => q.pc \notin {"username", "email", "save"}
             /\ <<"username", q.user>> \in barred[r] =>
                   \/ <<"username", q.user>> \in q.open
                   \/ q.pc \notin {"email", "new_email", "insert", "reread", "save"}
             /\ <<"email", q.user>> \in barred[r] =>
                   <<"email", q.user>> \in q.open \/ q.pc \notin {"insert", "reread", "save"}

AllClear == \A r \in Requests : Clear(r)

(* The obstacles are among those the database shows after the step, and     *)
(* none comes back.                                                         *)
LEMMA Obstacles ==
  ASSUME Observe, NEW r \in Requests, req'[r] \in GrantReq
  PROVE  /\ barred'[r] \subseteq Blocks(req[r])'
         /\ \A a : <<"off", a>> \in barred'[r] => a \in Off'
         /\ \A k \in {"ip", "client_id", "username", "email"} : \A a :
               <<k, a>> \in barred'[r] => <<k, a>> \in denied'
         /\ req[r] # Idle => barred'[r] \subseteq barred[r]
<1>1. barred'[r] = IF req[r] = Idle THEN Blocks(req[r])' ELSE barred[r] \cap Blocks(req[r])'
  BY Zenon DEF Observe
<1>2. Blocks(req[r])' =
        {<<"off", a>> : a \in Checked(req'[r]) \cap Off'} \cup (Enforced(req'[r]) \cap denied')
  BY Zenon DEF Blocks, GrantReq, Checked, Parties, Enforced
<1>3. \A a : <<"off", a>> \notin Enforced(req'[r])
  BY DEF Enforced
<1> QED BY <1>1, <1>2, <1>3

(* A request that stays where it is.                                        *)
LEMMA StaysClear ==
  ASSUME Observe, NEW r \in Requests, Clear(r), req'[r] = req[r]
  PROVE  Clear(r)'
<1> SUFFICES ASSUME req'[r] \in GrantReq PROVE Clear(r)'
  BY ZenonT(40) DEF Clear
<1>1. barred'[r] \subseteq barred[r] /\ barred'[r] \subseteq Blocks(req[r])'
  BY Obstacles DEF GrantReq, Idle
<1> QED BY Zenon, <1>1 DEF Clear

(* After the step there is no such entry, or its lookup has failed.         *)
Excused(r, kind, value) == <<kind, value>> \in denied' => <<kind, value>> \in req'[r].open

(* A request that goes on has found out what its next step takes for        *)
(* granted.                                                                 *)
LEMMA GoesOnClear ==
  ASSUME Observe, NEW r \in Requests, Clear(r), req[r] \in GrantReq, req'[r] \in GrantReq,
         req'[r].grant = req[r].grant, req'[r].client = req[r].client,
         req'[r].user = req[r].user, req[r].open \subseteq req'[r].open,
         req[r].grant # "bearer" => req'[r].pc = "save",
         req[r].pc = "denylist" => Excused(r, "client_id", req[r].client),
         req'[r].pc \in {"username", "email", "save"} =>
            req[r].grant # "bearer" \/ req[r].pc \in {"username", "email"} \/ req[r].user \notin Off',
         req'[r].pc \in {"email", "new_email", "insert", "reread", "save"} =>
            \/ req[r].grant # "bearer" \/ req[r].pc \in {"email", "new_email", "insert"}
            \/ Excused(r, "username", req[r].user),
         req'[r].pc \in {"insert", "reread", "save"} =>
            \/ req[r].grant # "bearer" \/ req[r].pc = "insert"
            \/ Excused(r, "email", req[r].user)
  PROVE  Clear(r)'
<1>1. /\ barred'[r] \subseteq barred[r] /\ barred'[r] \subseteq Blocks(req[r])'
      /\ \A a : <<"off", a>> \in barred'[r] => a \in Off'
      /\ \A k \in {"ip", "client_id", "username", "email"} : \A a :
            <<k, a>> \in barred'[r] => <<k, a>> \in denied'
  BY Obstacles DEF GrantReq, Idle
<1> QED BY Zenon, <1>1 DEF Clear, Excused

LEMMA AskClear ==
  ASSUME IInv, Observe, NEW r \in Requests, NEW c \in Clients, AskToken(r, c),
         req'[r] \in GrantReq
  PROVE  Clear(r)'
<1>1. UNCHANGED <<accounts, denied>> /\ On(c)
  BY Zenon DEF AskToken, store, Authenticates
<1>2. PICK grant \in {"credentials", "session", "bearer"}, u \in Users \cup {None} :
        /\ Begin(r, GrantAt("denylist", grant, c, u, ListedPeer))
        /\ grant = "bearer" => u \in Users
  BY Zenon DEF AskToken
<1>3. /\ req'[r].pc = "denylist" /\ req'[r].grant = grant /\ req'[r].client = c
      /\ req'[r].user = u /\ req'[r].open = ListedPeer
  BY Zenon, <1>2 DEF Begin, GrantAt, IInv
<1>4. c \notin Off'
  BY <1>1 DEF Off, On, Exists
<1>5. <<"ip", Peer>> \in denied' => <<"ip", Peer>> \in ListedPeer
  BY <1>1 DEF ListedPeer
<1> QED BY Zenon, <1>1, <1>2, <1>3, <1>4, <1>5, Obstacles DEF Clear

(* Past a denylist lookup the subject is not on the list, or the lookup     *)
(* failed.                                                                  *)
LEMMA Passed ==
  ASSUME IInv, UNCHANGED denied, NEW r \in Requests, NEW kind, NEW value, NEW pc,
         PassDenylist(r, kind, value, pc), req[r] \in GrantReq, req'[r] \in GrantReq
  PROVE  /\ req'[r].grant = req[r].grant /\ req'[r].client = req[r].client
         /\ req'[r].user = req[r].user /\ req'[r].pc = pc
         /\ req[r].open \subseteq req'[r].open
         /\ Excused(r, kind, value)
<1>1. CASE End(r)
  BY <1>1, KindsApart DEF End, IInv
<1>2. CASE ~Listed(kind, value) /\ Goto(r, pc)
  BY <1>2 DEF Goto, Listed, GrantReq, IInv, Excused
<1>3. CASE req' = [req EXCEPT ![r].pc = pc, ![r].open = @ \cup {<<kind, value>>}]
  BY <1>3 DEF GrantReq, IInv, Excused
<1> QED BY Zenon, <1>1, <1>2, <1>3 DEF PassDenylist

LEMMA ClientDenylistClear ==
  ASSUME IInv, Observe, NEW r \in Requests, Clear(r), ClientDenylist(r), req'[r] \in GrantReq
  PROVE  Clear(r)'
<1>1. /\ UNCHANGED denied /\ req[r].pc = "denylist"
      /\ PassDenylist(r, "client_id", req[r].client, AfterClient[req[r].grant])
  BY Zenon DEF ClientDenylist, store
<1>2. req[r] \in GrantReq
  <2>1. ASSUME req[r] \in AskReq PROVE FALSE
    <3>1. "user" \notin DOMAIN req[r] /\ "user" \in DOMAIN req'[r]
      BY <2>1 DEF AskReq, GrantReq
    <3>2. DOMAIN req'[r] = DOMAIN req[r] \/ req'[r] = Idle
      BY <1>1 DEF PassDenylist, Goto, End, IInv
    <3> QED BY Zenon, <3>1, <3>2, KindsApart
  <2> QED BY Zenon, <1>1, <2>1, Whereabouts
<1>3. AfterClient[req[r].grant] = IF req[r].grant = "bearer" THEN "resolve" ELSE "save"
  BY <1>2 DEF GrantReq, AfterClient
<1> QED BY <1>1, <1>2, <1>3, Passed, GoesOnClear

LEMMA ResolveClear ==
  ASSUME IInv, Observe, NEW r \in Requests, Clear(r), ResolveSubject(r), req'[r] \in GrantReq
  PROVE  Clear(r)'
<1>1. req[r].pc = "resolve" /\ req[r] \in GrantReq /\ UNCHANGED accounts
  BY Zenon, Whereabouts DEF ResolveSubject, store
<1>2. PICK pc \in {"username", "new_username"} :
        Goto(r, pc) /\ (pc = "username" => On(req[r].user))
  BY KindsApart DEF ResolveSubject, End, IInv
<1>3. /\ req'[r].grant = req[r].grant /\ req'[r].client = req[r].client
      /\ req'[r].user = req[r].user /\ req'[r].open = req[r].open /\ req'[r].pc = pc
  BY <1>1, <1>2 DEF Goto, GrantReq, IInv
<1>4. On(req[r].user) => req[r].user \notin Off'
  BY Zenon, <1>1 DEF Off, On, Exists
<1>5. req[r].grant = "bearer"
  BY Zenon, <1>1 DEF Clear
<1> QED BY Zenon, <1>1, <1>2, <1>3, <1>4, <1>5, GoesOnClear

LEMMA SubjectDenylistClear ==
  ASSUME IInv, Observe, NEW r \in Requests, Clear(r), SubjectDenylist(r), req'[r] \in GrantReq
  PROVE  Clear(r)'
<1>1. UNCHANGED denied /\ req[r].pc \in {"username", "email", "new_username", "new_email"}
  BY Zenon DEF SubjectDenylist, store
<1>2. req[r] \in GrantReq
  BY Zenon, <1>1, Whereabouts
<1>3. req[r].grant = "bearer"
  BY Zenon, <1>1, <1>2 DEF Clear
<1>4. CASE /\ req[r].pc \in {"username", "new_username"}
           /\ PassDenylist(r, "username", req[r].user,
                            IF req[r].pc = "username" THEN "email" ELSE "new_email")
  BY <1>1, <1>2, <1>3, <1>4, Passed, GoesOnClear
<1>5. CASE /\ req[r].pc \in {"email", "new_email"}
           /\ PassDenylist(r, "email", req[r].user,
                            IF req[r].pc = "email" THEN "save" ELSE "insert")
  BY <1>1, <1>2, <1>3, <1>5, Passed, GoesOnClear
<1> QED BY Zenon, <1>4, <1>5 DEF SubjectDenylist

LEMMA ProvisionClear ==
  ASSUME IInv, Observe, NEW r \in Requests, Clear(r), Provision(r), req'[r] \in GrantReq
  PROVE  Clear(r)'
<1>1. req[r].pc = "insert" /\ req[r] \in GrantReq
  BY Zenon, Whereabouts DEF Provision
<1>2. req[r].grant = "bearer" /\ req[r].user \in Users
  BY Zenon, <1>1 DEF Clear
<1>3. PICK pc \in {"save", "reread"} :
        /\ Goto(r, pc)
        /\ pc = "save" => Insert(req[r].user, [enabled |-> TRUE, rest |-> 0])
  BY Zenon DEF Provision
<1>4. /\ req'[r].grant = req[r].grant /\ req'[r].client = req[r].client
      /\ req'[r].user = req[r].user /\ req'[r].open = req[r].open /\ req'[r].pc = pc
  BY Zenon, <1>1, <1>3 DEF Goto, GrantReq, IInv
<1>5. ASSUME pc = "save" PROVE req[r].user \notin Off'
  <2>1. req[r].user \in Accounts
    BY Zenon, <1>2 DEF Accounts
  <2>2. accounts'[req[r].user] = [enabled |-> TRUE, rest |-> 0]
    BY Zenon, <1>3, <1>5, <2>1 DEF Insert, IInv, Rows
  <2>3. accounts'[req[r].user] # None
    <3>1. [enabled |-> TRUE, rest |-> 0] \in UserRow
      BY DEF UserRow
    <3> QED BY Zenon, <2>2, <3>1, AccountsAssumption
  <2> QED BY <2>2, <2>3 DEF Off, On, Exists
<1> QED BY Zenon, <1>1, <1>2, <1>3, <1>4, <1>5, GoesOnClear

LEMMA RereadClear ==
  ASSUME IInv, Observe, NEW r \in Requests, Clear(r), RereadUser(r), req'[r] \in GrantReq
  PROVE  Clear(r)'
<1>1. req[r].pc = "reread" /\ req[r] \in GrantReq /\ UNCHANGED accounts
  BY Zenon, Whereabouts DEF RereadUser, store
<1>2. Goto(r, "username") /\ On(req[r].user)
  BY KindsApart DEF RereadUser, End, IInv
<1>3. /\ req'[r].grant = req[r].grant /\ req'[r].client = req[r].client
      /\ req'[r].user = req[r].user /\ req'[r].open = req[r].open
      /\ req'[r].pc = "username"
  BY <1>1, <1>2 DEF Goto, GrantReq, IInv
<1>4. req[r].user \notin Off'
  BY Zenon, <1>1, <1>2 DEF Off, On, Exists
<1>5. req[r].grant = "bearer"
  BY Zenon, <1>1 DEF Clear
<1> QED BY <1>1, <1>3, <1>4, <1>5, GoesOnClear

LEMMA ClearNext ==
  ASSUME IInv, AllClear, Next
  PROVE  AllClear'
<1> SUFFICES ASSUME NEW r \in Requests, req'[r] \in GrantReq PROVE Clear(r)'
  BY DEF AllClear, Clear
<1>1. Observe /\ Clear(r)
  BY Zenon DEF Next, AllClear
<1>2. req'[r] = req[r] \/ GrantStep(r)
  BY Zenon, StepMoves DEF Next, Moves
<1>3. ASSUME Save(r) PROVE FALSE
  BY <1>3, KindsApart DEF Save, End, IInv
<1> QED BY <1>1, <1>2, <1>3, StaysClear, AskClear, ClientDenylistClear, ResolveClear,
           SubjectDenylistClear, ProvisionClear, RereadClear DEF GrantStep

(* authenticate, _resolve_subject and check_subject_denylisted: a token is  *)
(* saved only by a request that its accounts, and the entries of the kinds  *)
(* that are looked up, did not stand against all the time, but for entries  *)
(* whose own lookup failed.                                                 *)
THEOREM IssuedOnlyWhileAllowed == Spec => IssuedWhileAllowed
<1>1. Init => AllClear
  BY KindsApart DEF Init, AllClear, Clear
<1>2. IInv /\ AllClear /\ [Next]_vars => AllClear'
  <2> SUFFICES ASSUME IInv, AllClear, [Next]_vars PROVE AllClear'
    BY ZenonT(40)
  <2>1. CASE UNCHANGED vars
    <3>1. UNCHANGED <<accounts, denied, req, barred>>
      BY Zenon, <2>1 DEF vars
    <3> QED BY <3>1 DEF AllClear, Clear, Blocks, Enforced, Off, On, Exists
  <2> QED BY <2>1, ClearNext
<1>3. IInv /\ AllClear =>
        [\A r \in Requests :
            req[r].pc = "save" /\ Len(tokens') > Len(tokens) /\ req'[r] = Idle =>
               barred[r] \subseteq req[r].open]_vars
  <2> SUFFICES ASSUME IInv, AllClear, NEW r \in Requests, req[r].pc = "save", NEW b \in barred[r]
               PROVE  b \in req[r].open
    BY Zenon
  <2>1. req[r] \in GrantReq
    BY Zenon, Whereabouts
  <2>2. b \in Blocks(req[r])
    BY Zenon, <2>1 DEF AllClear, Clear
  <2>3. (\E a \in Checked(req[r]) : b = <<"off", a>>) \/ b \in Enforced(req[r])
    BY <2>1, <2>2 DEF Blocks, GrantReq
  <2>4. Checked(req[r]) \subseteq
           {req[r].client} \cup (IF req[r].grant = "bearer" THEN {req[r].user} ELSE {})
    BY DEF Checked, Parties
  <2>5. b # <<"off", req[r].client>>
    BY Zenon, <2>1 DEF AllClear, Clear
  <2>6. req[r].grant = "bearer" => b # <<"off", req[r].user>>
    BY ZenonT(40), <2>1 DEF AllClear, Clear
  <2>7. b \in Enforced(req[r])
    BY <2>3, <2>4, <2>5, <2>6
  <2>8. \/ b = <<"ip", Peer>> \/ b = <<"client_id", req[r].client>>
        \/ /\ req[r].grant = "bearer"
           /\ b = <<"username", req[r].user>> \/ b = <<"email", req[r].user>>
    BY <2>7 DEF Enforced
  <2> QED BY <2>1, <2>8 DEF AllClear, Clear
<1>4. Spec => []AllClear
  BY <1>1, <1>2, Inductive, PTL DEF Spec
<1> QED BY <1>3, <1>4, Inductive, PTL DEF IssuedWhileAllowed
=============================================================================
