------------------------------- MODULE Config -------------------------------
(***************************************************************************)
(* internal/config: from a YAML file and the environment to the values the *)
(* kernel builds from, or to a rejection.  A text of the file is a model   *)
(* value, Empty, or Var, which stands for a "${VAR}" reference; module     *)
(* settings are opaque and left out.                                       *)
(***************************************************************************)
EXTENDS Integers, Sequences

CONSTANT Var

Empty == ""

(* Addresses, and the defaults of applyDefaults.                           *)
DefaultAddress == ":8080"
DefaultTimeout == 120
StaticRouter   == "router.static"

(* os.Getenv of an unset variable is empty, so a reference may vanish.     *)
expand(text, env) == IF text = Var THEN env.VAR ELSE text

expanded(file, env) ==
  [file EXCEPT !.providers =
     [k \in DOMAIN @ |-> [name |-> expand(@[k].name, env), use |-> expand(@[k].use, env)]]]

applyEnvOverrides(c, env) ==
  [c EXCEPT !.address = IF env.CONDUCTOR_ADDRESS = Empty THEN @ ELSE env.CONDUCTOR_ADDRESS]

applyDefaults(c) ==
  [c EXCEPT !.address = IF @ = Empty THEN DefaultAddress ELSE @,
            !.timeout = IF @ <= 0 THEN DefaultTimeout ELSE @,
            !.router  = IF @ = Empty THEN StaticRouter ELSE @]

Named(p) == p.use # Empty /\ p.name # Empty

(* A validate that looks at each entry alone.                              *)
validateEach(c) ==
  c.providers # <<>> /\ \A k \in DOMAIN c.providers : Named(c.providers[k])

validate(c) ==
  /\ c.providers # <<>>
  /\ \A k \in DOMAIN c.providers : Named(c.providers[k])
  /\ \A k, l \in DOMAIN c.providers : c.providers[k].name = c.providers[l].name => k = l

parse(file, env) == applyDefaults(applyEnvOverrides(expanded(file, env), env))
=============================================================================
