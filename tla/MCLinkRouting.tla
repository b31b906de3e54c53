---------------------------- MODULE MCLinkRouting ----------------------------
(* LinkRouting with one link, for statements that do not hold of it.       *)
EXTENDS LinkRouting, TLC

CONSTANTS a, dnsA, name, plain, special

Managed(dns, n, opt, relevant) ==
    [managed |-> TRUE, relevant |-> relevant, dns |-> dns, name |-> n, option |-> opt,
     refused |-> FALSE]

(* One link that networkd manages or does not.                             *)
OneLink == a :> {Unmanaged, Managed(dnsA, NoName, plain, TRUE)}
=============================================================================
