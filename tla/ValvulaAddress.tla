---------------------------- MODULE ValvulaAddress ----------------------------
(***************************************************************************)
(* Mail addresses and the rules that match them (lib/valvula.c).           *)
(*                                                                         *)
(* An address is its local part, None when there is no "@", and its domain *)
(* as a sequence of labels.  The empty sender "<>" is an address with      *)
(* neither.  A rule has the same two parts and says whether it begins with *)
(* "*.": "acme.org", "top", "web@", "ann@acme.org", "*.acme.org" and the   *)
(* empty rule are all the forms the code tells apart.                      *)
(***************************************************************************)
EXTENDS Naturals, Sequences

CONSTANT None       \* no local part

Address(local, domain) == [local |-> local, domain |-> domain]
EmptyAddress == Address(None, <<>>)

(* valvula_get_domain, valvula_get_sender_domain and                       *)
(* valvula_get_recipient_domain: what follows the "@", or the whole when   *)
(* there is none.                                                          *)
DomainOf(a) == Address(None, a.domain)

(* valvula_get_local_part.                                                 *)
LocalPart(a) == a.local

(* valvula_get_tld_extension walks back from the end to a "." without      *)
(* looking for the start: of an address without one it reads the byte      *)
(* before the string, which ends the walk when it is 0 and gives back the  *)
(* whole address, an extension no rule names.                              *)
TldOf(a) == IF Len(a.domain) > 1 THEN SubSeq(a.domain, Len(a.domain), Len(a.domain)) ELSE <<>>

IsUnder(domain, parent) ==
    /\ Len(domain) > Len(parent)
    /\ SubSeq(domain, Len(domain) - Len(parent) + 1, Len(domain)) = parent

AnyAddress(rule) == ~rule.wild /\ rule.local = None /\ rule.domain = <<>>

(* valvula_address_rule_match.                                             *)
RuleMatch(rule, a) ==
    \/ AnyAddress(rule)
    \/ /\ ~rule.wild
       /\ \/ rule.local = a.local /\ rule.domain = a.domain
          \/ rule.local = None /\ Len(rule.domain) = 1 /\ rule.domain = TldOf(a)
          \/ rule.local = None /\ Len(rule.domain) > 1 /\ rule.domain = a.domain
          \/ rule.local # None /\ rule.domain = <<>> /\ rule.local = LocalPart(a)
    \/ rule.wild /\ rule.local = None /\ IsUnder(a.domain, rule.domain)
=============================================================================
