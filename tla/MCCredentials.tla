---------------------------- MODULE MCCredentials ----------------------------
(***************************************************************************)
(* A small instance of Credentials for TLC: Docker Hub under two names and *)
(* a private registry with an entry written by hand beside docker login's. *)
(***************************************************************************)
EXTENDS Credentials

MCKeys ==
  {<<Hub, "name">>, <<Hub, "index">>} \cup
  {<<h, f>> : h \in Hosts \ (Ecr \cup {Hub}), f \in {"name", "path"}}
=============================================================================
