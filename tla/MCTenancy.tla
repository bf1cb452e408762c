----------------------------- MODULE MCTenancy -----------------------------
(* A small instance of module Tenancy.                                     *)
EXTENDS Tenancy
=============================================================================
