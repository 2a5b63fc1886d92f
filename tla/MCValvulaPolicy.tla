--------------------------- MODULE MCValvulaPolicy ---------------------------
(* One hosted domain in MySQL and one in Plesk's database, a main.cf of    *)
(* five lines, and one request of each kind the modules tell apart.        *)
EXTENDS ValvulaPolicy

CONSTANTS w1, w2

acme == <<"acme", "org">>
shop == <<"shop", "org">>
far == <<"far", "net">>
evil == <<"mail", "evil", "top">>

ann == Address("ann", acme)     \* an account
bob == Address("bob", acme)     \* an alias
zoe == Address("zoe", shop)     \* an account of Plesk
ghost == Address("ghost", shop) \* unknown, of a local domain
spam == Address("spam", evil)
friend == Address("ann", far)
other == Address("other", far)

Request(sender, recipient, sasl) == [sender |-> sender, recipient |-> recipient, sasl |-> sasl]
MCRequests == [w \in Workers |->
    IF w = w1
    THEN { Request(spam, ann, NULL), Request(friend, other, NULL), Request(bob, ann, NULL),
           Request(bob, other, ann), Request(EmptyAddress, ann, NULL),
           Request(bob, other, bob), Request(zoe, other, ann) }
    ELSE { Request(ghost, zoe, NULL) }]

MCColumns == [bwl_global |-> <<"id", "sasl_users_to_skip">>, bwl_domain |-> <<"id">>,
              bwl_account |-> <<"id">>, bwl_global_sasl |-> <<"id">>,
              slm_exception |-> <<"id", "is_active">>]
(* The database of an older release, without mod-slm and one column of     *)
(* bwl_global.  The other tables of mod-bwl are there.                     *)
MCSchemas == { [t \in DOMAIN MCColumns |->
                    CASE t = "bwl_global" -> {"id"} [] t = "slm_exception" -> {} [] OTHER -> {"id"}] }
MCModules == <<"mod-bwl", "mod-object-resolver", "mod-slm">>
MCModTables == [m \in ToSet(MCModules) |->
    CASE m = "mod-bwl" -> <<"bwl_domain", "bwl_global">>
      [] m = "mod-slm" -> <<"slm_exception">>
      [] OTHER -> <<>>]
MCPriority == [m \in ToSet(MCModules) |-> IF m = "mod-bwl" THEN 1 ELSE 2]

Name(n) == [form |-> "name", name |-> n]
Ref(n) == [form |-> "ref", name |-> n]
Mysql(f) == [form |-> "mysql", name |-> f]
Line(key, values) == [key |-> key, values |-> values]
MCMainCf == << Line("virtual_mailbox_domains", <<Mysql("domains.cf")>>), Line("mydestination", <<Name(<<"mx", "acme", "org">>), Ref("mydomain")>>),
               Line("virtual_mailbox_maps", <<Mysql("accounts.cf")>>),
               Line("aliases", <<Mysql("aliases.cf")>>), Line("virtual_alias_maps", <<Ref("aliases")>>) >>
MCMysqlFiles == [f \in {"domains.cf", "accounts.cf", "aliases.cf"} |->
    CASE f = "domains.cf" -> [old |-> {DomainOf(ann)}, query |-> NULL]
      [] f = "accounts.cf" -> [old |-> NULL, query |-> {ann}]
      [] f = "aliases.cf" -> [old |-> NULL, query |-> {bob}]]
MCPlesk == [domain |-> {DomainOf(zoe)}, account |-> {zoe}]

Everyone == Rule(None, <<>>)
Global(source, destination, status, skip) ==
    [active |-> TRUE, source |-> source, destination |-> destination, status |-> status,
     sasl_users_to_skip |-> skip, limit_rule_to_sasl_users |-> {}]
For(who, source, status) ==
    [active |-> TRUE, rules_for |-> who, source |-> source, status |-> status]
(* A blacklist, a whitelist that is more specific, a whitelist that would  *)
(* be an open relay, a blacklist one user is to be spared.                 *)
MCRules ==
    [bwl_global |-> << Global([local |-> None, wild |-> TRUE, domain |-> <<"evil", "top">>], Everyone, "reject", {}),
                       Global(Rule(None, <<"top">>), Exactly(DomainOf(ann)), "ok", {}),
                       Global(Rule("ann", <<>>), Everyone, "ok", {}),
                       Global(Everyone, Exactly(other), "discard", {ann}) >>,
     bwl_domain |-> << For(DomainOf(ann), Rule(None, <<"top">>), "filterdiscard") >>,
     bwl_account |-> << For(ann, Everyone, "ok") >>]
MCBlocked == { [sasl_user |-> bob, active |-> FALSE] }
MCExceptions == { [sasl_username |-> ann, mail_from |-> zoe, active |-> TRUE],
                  [sasl_username |-> ann, mail_from |-> NULL, active |-> FALSE] }
=============================================================================
