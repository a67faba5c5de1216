----------------------------- MODULE TelegramLink -----------------------------
(***************************************************************************)
(* Linking a product account to a private Telegram chat: the one-time      *)
(* codes a signed-in user asks for (application/telegram_account_link.py)  *)
(* and their redemption by the bot's webhook, a PostgreSQL transaction     *)
(* (supabase/migrations/20260928174059_telegram_account_link.sql).         *)
(*                                                                         *)
(* A transaction is two steps: its SELECT ... FOR UPDATE, which holds the  *)
(* request's row and looks at the user's without holding it, and the rest, *)
(* visible to others at the commit.  A redemption that answers false       *)
(* changes nothing: Telegram's retry of a webhook call that was answered   *)
(* 503 is another redemption of the code.                                  *)
(***************************************************************************)
EXTENDS Naturals, FiniteSets

CONSTANTS
  Users,     \* product users: their ids, in the order of the database
  Chats,     \* private chats, one per Telegram user
  Codes,     \* the link codes that may be issued
  Webhooks,  \* redemptions that may run at once
  CodeTtl,   \* the ten minutes of a code
  MaxTime,   \* bound on the clock
  None       \* no row

ASSUME LinkAssumption ==
  /\ IsFiniteSet(Users) /\ Users \subseteq Nat \ {0}
  /\ None \notin Chats /\ None \notin Codes
  /\ CodeTtl \in Nat \ {0} /\ MaxTime \in Nat

VARIABLES
  now,      \* the clock
  enabled,  \* users whose disabled_at is null
  request,  \* dexsato_telegram_link_requests, by code
  link,     \* dexsato_telegram_account_links: the chat of each user
  tx,       \* the code and chat of each open redemption
  used      \* history: the codes that have linked an account

linkVars == <<now, enabled, request, link, tx, used>>

RequestRow == [user : Users, expires : Nat, consumed : BOOLEAN]
Redemption == [code : Codes, chat : Chats]

ASSUME NoRow == None \notin RequestRow /\ None \notin Redemption

LinkTypeOK ==
  /\ now \in Nat
  /\ enabled \subseteq Users
  /\ request \in [Codes -> RequestRow \cup {None}]
  /\ link \in [Users -> Chats \cup {None}]
  /\ tx \in [Webhooks -> Redemption \cup {None}]
  /\ used \subseteq Codes

OneToOne == \A u, v \in Users : link[u] # None /\ link[u] = link[v] => u = v

\* Accounts may have been linked before the codes of the model were issued.
LinkInit ==
  /\ now = 0
  /\ enabled = Users
  /\ request = [c \in Codes |-> None]
  /\ link \in [Users -> Chats \cup {None}] /\ OneToOne
  /\ tx = [h \in Webhooks |-> None]
  /\ used = {}

-----------------------------------------------------------------------------

\* begin_telegram_link: any number of codes for a user who is signed in.
Issue(c, u) ==
  /\ request[c] = None
  /\ u \in enabled
  /\ request' = [request EXCEPT ![c] =
       [user |-> u, expires |-> now + CodeTtl, consumed |-> FALSE]]
  /\ UNCHANGED <<now, enabled, link, tx, used>>

\* Mutant: SELECT without FOR UPDATE.
RowReadable(c) == c \in Codes

\* FOR UPDATE: a transaction waits for the row another one has read.
RowFree(c) == \A h \in Webhooks : tx[h] # None => tx[h].code # c

\* The code is asked for at the moment its row is obtained; the SQL's now() is
\* the start of the transaction, which may have waited for the row since.
SelectRequest(h, c, k) ==
  /\ tx[h] = None
  /\ RowFree(c)
  /\ request[c] # None
  /\ ~ request[c].consumed /\ request[c].expires > now
  /\ request[c].user \in enabled
  /\ tx' = [tx EXCEPT ![h] = [code |-> c, chat |-> k]]
  /\ UNCHANGED <<now, enabled, request, link, used>>

\* ON CONFLICT DO NOTHING: the user's primary key, the chat's uniqueness.
NoConflict(u, k) == link[u] = None /\ \A v \in Users : link[v] # k

\* The insertion, consumed_at and the commit.
CommitLink(h) ==
  /\ tx[h] # None
  /\ LET c == tx[h].code  k == tx[h].chat  u == request[tx[h].code].user IN
       /\ NoConflict(u, k)
       /\ link' = [link EXCEPT ![u] = k]
       /\ request' = [request EXCEPT ![c].consumed = TRUE]
       /\ used' = used \cup {c}
  /\ tx' = [tx EXCEPT ![h] = None]
  /\ UNCHANGED <<now, enabled>>

\* A conflict (false), or a connection that is lost before the commit.
EndUnlinked(h) ==
  /\ tx[h] # None
  /\ tx' = [tx EXCEPT ![h] = None]
  /\ UNCHANGED <<now, enabled, request, link, used>>

\* An operator works on the tables: no code of the program disables a user
\* or deletes a link.
SetEnabled(u) ==
  /\ enabled' \in {enabled \cup {u}, enabled \ {u}}
  /\ UNCHANGED <<now, request, link, tx, used>>

DropLink(u) ==
  /\ link[u] # None
  /\ link' = [link EXCEPT ![u] = None]
  /\ UNCHANGED <<now, enabled, request, tx, used>>

Tick ==
  /\ now < MaxTime
  /\ now' = now + 1
  /\ UNCHANGED <<enabled, request, link, tx, used>>

LinkNext ==
  \/ \E c \in Codes, u \in Users : Issue(c, u)
  \/ \E h \in Webhooks, c \in Codes, k \in Chats : SelectRequest(h, c, k)
  \/ \E h \in Webhooks : CommitLink(h) \/ EndUnlinked(h)
  \/ \E u \in Users : SetEnabled(u) \/ DropLink(u)
  \/ Tick

-----------------------------------------------------------------------------

\* "Atomic redemption ensures a guessed or replayed code cannot bind an
\* account": whatever redemptions overlap, are repeated or lose their
\* answers, and although links are deleted meanwhile, an account is linked
\* by a code issued to it that has linked nothing before, and to a chat that
\* is no other account's (dexsato_redeem_telegram_link).
ReplayBindsNothing ==
  [][/\ \A u \in Users : link'[u] # None /\ link'[u] # link[u] =>
          \E c \in used' \ used : request[c] # None /\ request[c].user = u
     /\ \A u, v \in Users : link'[u] # None /\ link'[u] = link'[v] => u = v]_linkVars
===============================================================================
