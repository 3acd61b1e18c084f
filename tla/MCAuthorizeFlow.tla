-------------------------- MODULE MCAuthorizeFlow ---------------------------
(* Small instances of AuthorizeFlow and SocialLogin for TLC: a behaviour is *)
(* about password logins, with every kind of request, or about sign-ins     *)
(* through providers, with one kind and nothing pushed.                     *)
EXTENDS SocialLogin, TLC

VARIABLE subject  \* what the behaviour is about

TabSymmetry == Permutations(Tabs)

Ask(c, isPushed, prompt, age) ==
    [client |-> c, pushed |-> isPushed, prompt |-> prompt, max_age |-> age]

AnyClient == CHOOSE c \in Clients : TRUE

(* A new login, a choice of account, a recent login, and a pushed request   *)
(* that any client may present, all but one without a login page.           *)
Mixed ==
    {Ask(AnyClient, FALSE, {"login"}, None),
     Ask(AnyClient, FALSE, {"select_account"}, None),
     Ask(AnyClient, FALSE, {}, 1)}
    \cup {Ask(c, TRUE, IF c = AnyClient THEN {} ELSE {"none"}, None) : c \in Clients}

NewLogin == {Ask(AnyClient, FALSE, {"login"}, None)}

Google == [provider |-> "google", email |-> "e1"]
Microsoft == [provider |-> "microsoft", email |-> "e1"]

TwoAccounts == {Google, Microsoft}

MCInit ==
    /\ Init
    /\ SocialInit
    /\ subject \in {"passwords", "accounts", "outages", "resuming"}
    /\ subject # "accounts" => \A u \in Locals : rows[u].linkable

NoLogout == \A t \in Tabs : tab'[t].at # "logout"

(* Every kind of request, and passwords.                                    *)
Passwords ==
    /\ subject = "passwords"
    /\ FlowNext(Visits)
    /\ Observe
    /\ NoLogout
    /\ now' < MaxTime
    /\ UNCHANGED socialVars

(* The steps of SocialLogin with nothing pushed, through these providers.   *)
Through(providers, visits) ==
    /\ SocialNext(visits)
    /\ pushed' = <<>>
    /\ \A t \in Tabs : trip'[t].provider \in providers \cup {None}

NoForms == \A t \in Tabs : tab'[t].at \notin {"posted", "logout"}

Answering == \A p \in Providers : ~breaker'[p].open

Unedited(users) == \A u \in users \cap DOMAIN rows' : rows'[u].linkable

(* Which row a sign-in leads to, all within a second.                       *)
Resolving ==
    /\ subject = "accounts"
    /\ Through(Providers, {})
    /\ NoForms /\ Answering /\ Unedited(Users \ Locals) /\ now' = 0

(* A provider that fails and recovers.                                      *)
Failing ==
    subject = "outages" /\ Through(Pkce, {}) /\ NoForms /\ Unedited(Users)

(* Requests that are resumed after a sign-in or a password login.           *)
Resuming ==
    /\ subject = "resuming"
    /\ Through(Pkce, NewLogin)
    /\ Answering /\ Unedited(Users) /\ now' < MaxTime

MCNext == (Passwords \/ Resolving \/ Failing \/ Resuming) /\ UNCHANGED subject

MCSpec == MCInit /\ [][MCNext]_<<vars, socialVars, subject>>
=============================================================================
