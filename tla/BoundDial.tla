------------------------------ MODULE BoundDial ------------------------------
(***************************************************************************)
(* The dialer at the root of every chain, which binds outgoing connections   *)
(* to source addresses: hints come from the option, from the request (the    *)
(* header or nothing) or from a set-src-hints dialer on the way down; `$lAddr *)
(* stands for the address the client connected to.  Every hint of a family    *)
(* the network allows is tried in order; without a hint the system chooses.   *)
(***************************************************************************)
EXTENDS Naturals, Sequences, Selection

CONSTANT MaxHints

\* An element of a list: an address of a family, the local address, or
\* something that is no address.
Hints    == UNION {[1 .. n -> {"v4", "v6", "lAddr", "junk"}] : n \in 0 .. MaxHints}
Absent   == <<"absent">>
\* What the local address is: of a family, of a socket without an IP address
\* (its name stays), or missing.
Locals   == {"v4", "v6", "name", "empty"}
Networks == {"tcp", "tcp4", "tcp6", "unix"}

VARIABLES
  depth,     \* "new", "chain" (going down the dialers), "try" or "over"
  asked,     \* the network asked for
  lAddr,     \* the local address in the context
  hinted,    \* the hints in the context, or Absent
  sources,   \* the sources the hints stand for, in order
  turn,      \* how many of them have been looked at
  failures,  \* the sources that could not be dialled from
  madeBy     \* "nothing", "system", "error", or "source" (the last looked at)
boundVars == <<depth, asked, lAddr, hinted, sources, turn, failures, madeBy>>

BoundInit ==
  /\ depth = "new" /\ asked = "tcp" /\ lAddr = "empty" /\ hinted = Absent
  /\ sources = <<>> /\ turn = 0 /\ failures = {} /\ madeBy = "nothing"

\* A handler puts the local address in the context, and the header's hints when
\* users may give them; the standard-input handler puts nothing there.
Enter ==
  /\ depth = "new" /\ depth' = "chain"
  /\ asked' \in Networks /\ lAddr' \in Locals /\ hinted' \in Hints \cup {Absent}
  /\ (lAddr' = "empty" => hinted' = Absent)
  /\ UNCHANGED <<sources, turn, failures, madeBy>>

\* HintsSettingDialer.DialContext: its hints take the place of those in the
\* context, the local address stays.
PassSetter ==
  /\ depth = "chain" /\ hinted' \in Hints
  /\ UNCHANGED <<depth, asked, lAddr, sources, turn, failures, madeBy>>

----------------------------------------------------------------------------
\* A list with the local address put in.
Put(list, local) == [i \in DOMAIN list |-> IF list[i] = "lAddr" THEN local ELSE list[i]]

\* A slip: what is no address is dropped like what is empty.
ExpandLenient(list, local) ==
  LET full == Put(list, local)
  IN  Selected(full, {i \in DOMAIN full : full[i] \notin {"empty", "junk", "name"}})

\* parseHints: the local address is put in, empty elements are dropped, and one
\* that is no address spoils the list.
Expand(list, local) ==
  LET full == Put(list, local) IN Selected(full, {i \in DOMAIN full : full[i] # "empty"})
Spoilt(list) == \E i \in DOMAIN list : list[i] \in {"junk", "name"}

\* The option's list is used when the context brings none.
BoundStart ==
  /\ depth = "chain"
  /\ \E default \in Hints :
       LET list == Expand(IF hinted = Absent THEN default ELSE hinted, lAddr) IN
       \/ /\ Spoilt(list)
          /\ depth' = "over" /\ madeBy' = "error" /\ UNCHANGED sources
       \/ /\ ~Spoilt(list) /\ (list = <<>> \/ asked = "unix")
          /\ depth' = "over" /\ madeBy' \in {"system", "error"} /\ UNCHANGED sources
       \/ /\ ~Spoilt(list) /\ list # <<>> /\ asked # "unix"
          /\ depth' = "try" /\ sources' = list /\ UNCHANGED madeBy
  /\ UNCHANGED <<asked, lAddr, hinted, turn, failures>>

\* The network a source of a family restricts the dial to.
Restricted(family) == IF family = "v4" THEN "tcp4" ELSE "tcp6"
Fits(family) == asked \in {"tcp", Restricted(family)}

\* One turn of the loop: skip, connect or note the failure.
TrySource ==
  /\ depth = "try" /\ turn < Len(sources)
  /\ turn' = turn + 1
  /\ IF ~Fits(sources[turn + 1]) THEN UNCHANGED <<depth, failures, madeBy>>
     ELSE \/ depth' = "over" /\ madeBy' = "source" /\ UNCHANGED failures
          \/ failures' = failures \cup {turn + 1} /\ UNCHANGED <<depth, madeBy>>
  /\ UNCHANGED <<asked, lAddr, hinted, sources>>

\* After the loop: the failures, or that no address was suitable.
NoSource ==
  /\ depth = "try" /\ turn = Len(sources)
  /\ depth' = "over" /\ madeBy' = "error"
  /\ UNCHANGED <<asked, lAddr, hinted, sources, turn, failures>>

BoundNext == Enter \/ PassSetter \/ BoundStart \/ TrySource \/ NoSource
BoundSpec == BoundInit /\ [][BoundNext]_boundVars

----------------------------------------------------------------------------
\* The sources of the list the network allows.
Fitting == {i \in DOMAIN sources : asked = "tcp" \/
              (asked = "tcp4") = (sources[i] = "v4")}

\* A dial with hints connects from the first source that is allowed and works,
\* and fails only when every allowed one has failed: no source of the other
\* family is used, none is passed over, none is tried after a success.
FirstThatWorks ==
  depth = "over" /\ sources # <<>> =>
    IF madeBy = "error" THEN failures = Fitting
    ELSE turn \in Fitting /\ failures = {i \in Fitting : i < turn}

\* A request whose list names at least one address of a family never leaves by
\* an address the system chose, whichever dialers set hints on the way.
NeverUnbound ==
  madeBy = "system" /\ hinted # Absent /\ asked # "unix"
    => \A i \in DOMAIN hinted : hinted[i] = "lAddr" /\ lAddr = "empty"

\* A connection leaves by a source that was asked for, and by the first that can be had.
SourcesKept == FirstThatWorks /\ NeverUnbound
=============================================================================
