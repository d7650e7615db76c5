---------------------------- MODULE MCAdmission ----------------------------
(* Documents for the run of Admission. *)
EXTENDS Admission

Symmetry == Permutations(Clusters)

CONSTANTS v1, nil

RoleWith(name, min, scaleOut, storage, ephemeral, package) ==
  [name |-> name, min |-> min, scaleOut |-> scaleOut, resources |-> 1,
   storage |-> storage, ephemeral |-> ephemeral, package |-> package]

\* A scalable role and a fixed one that can be left out; the defaults are in the
\* roles or for all of them.
App(selected, logSize, roleServices) ==
  [roles |-> <<RoleWith("a", 1, TRUE, 2, TRUE, nil), RoleWith("b", 1, FALSE, 0, FALSE, "own")>>,
   selected |-> selected, services |-> {"http", "ssh"}, roleServices |-> roleServices,
   package |-> "common", logSize |-> logSize]

Ports(name, services) == [name |-> name, services |-> services]

MCFirstApp == App({"a"}, FALSE, <<Ports("a", {"http", "ssh"}), Ports("b", {"ssh"})>>)

MCNodeApps == {
  MCFirstApp,
  App({"a"}, TRUE, <<Ports("a", {"http", "ssh"}), Ports("b", {"ssh"})>>),
  App({"a", "b"}, FALSE, <<Ports("a", {"http"})>>),
  App({"a"}, FALSE, <<Ports("a", {"http"}), Ports("a", {"ssh"})>>)}

Asked(name, members, resources, storage, class, claim, secret) ==
  [name |-> name, members |-> members,
   cfg |-> [resources |-> resources, storage |-> storage, class |-> class,
            claim |-> claim, secret |-> secret]]

MCRequests ==
  {[catalog |-> "system", service |-> v1, roles |-> roles] : roles \in {
     <<Asked("a", 2, 1, 0, nil, FALSE, "none")>>,
     <<Asked("a", 2, 1, 0, nil, FALSE, "none"), Asked("b", nil, 1, 0, nil, FALSE, "none")>>,
     <<Asked("a", 0, 1, 0, nil, FALSE, "none")>>,
     <<Asked("a", 1, 1, 1, nil, FALSE, "none")>>,
     <<Asked("a", 1, 1, 2, v1, TRUE, "value"), Asked("b", nil, 1, 0, nil, FALSE, "none")>>,
     <<Asked("a", 1, 1, 2, v1, TRUE, "kept"), Asked("b", nil, 1, 0, nil, TRUE, "none")>>,
     <<Asked("b", nil, 1, 0, nil, FALSE, "none")>>}}
  \cup
  {[catalog |-> nil, service |-> nil, roles |-> <<Asked("a", nil, 1, 2, nil, FALSE, "kept")>>]}
=============================================================================
