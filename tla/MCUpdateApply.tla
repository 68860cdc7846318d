---------------------------- MODULE MCUpdateApply ----------------------------
(* An instance of UpdateApply: one executable per component, a frontend whose *)
(* second build ships one file more, a backend whose third build speaks a new *)
(* protocol, and four releases.                                               *)
EXTENDS UpdateApply

MCFiles == {"app", "view", "panel", "daemon"}
MCPayload ==
  [runtime  |-> << <<"app">>, <<"app">>, <<"app">> >>,
   frontend |-> << <<"view">>, <<"view", "panel">>, <<"panel", "view">> >>,
   backend  |-> << <<"daemon">>, <<"daemon">>, <<"daemon">> >>]
MCProtocol ==
  [runtime |-> <<0, 0, 0>>, frontend |-> <<1, 1, 2>>, backend |-> <<1, 1, 2>>]

Builds3(r, f, b) == [runtime |-> r, frontend |-> f, backend |-> b]
MCCatalogs ==
  { [release |-> 1, builds |-> Builds3(1, 1, 1), full |-> Builds3(1, 1, 1),
     artifacts |-> {"full"}],
    [release |-> 2, builds |-> [frontend |-> 2], full |-> Builds3(1, 2, 1),
     artifacts |-> {"frontend", "full"}],
    [release |-> 3, builds |-> [frontend |-> 3, backend |-> 3], full |-> Builds3(1, 3, 3),
     artifacts |-> {"frontend", "backend", "full"}],
    [release |-> 4, builds |-> [runtime |-> 2, backend |-> 3], full |-> Builds3(2, 3, 3),
     artifacts |-> {"runtime", "backend", "full"}] }
=============================================================================
