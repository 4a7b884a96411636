---------------------------- MODULE MCApiRuntime ----------------------------
(* ApiRuntime for TLC: two clients of one route with different filters, and  *)
(* a service with a read scope and one it may not have.                      *)
EXTENDS ApiRuntime

Requests ==
  {[client |-> "c", path |-> "rankings", filter |-> "all", token |-> "none"],
   [client |-> "d", path |-> "rankings", filter |-> "no etf", token |-> "none"],
   [client |-> "c", path |-> "agent", filter |-> "all", token |-> "service"]}

Service == <<<<"service", {"rs:read", "repair:claim"}>>>>
Operator == <<<<"operator", {"repair:claim"}>>>>
=============================================================================
