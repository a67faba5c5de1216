------------------------------- MODULE MCAlerts -------------------------------
(* A small instance of FounderAutomation, with TelegramLink, for TLC. *)
EXTENDS FounderAutomation, TLC

CONSTANTS btc, why

MCCoin(available, decision, confidence, evidence) ==
  [available |-> available, decision |-> decision, confidence |-> confidence,
   evidence |-> evidence]

\* One market: out of reach, quiet, watched with less and more evidence, or
\* one that requires attention.
MCScans == {[m \in {btc} |-> coin] : coin \in
              {MCCoin(FALSE, "IGNORE", 0, {}), MCCoin(TRUE, "IGNORE", 1, {}),
               MCCoin(TRUE, "WATCH", 2, {}), MCCoin(TRUE, "WATCH", 2, {why}),
               MCCoin(TRUE, "ALERT", 3, {why})}}

Symmetry == Permutations(Chats) \cup Permutations(Webhooks) \cup Permutations(Codes)
===============================================================================
