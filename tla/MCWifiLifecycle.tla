--------------------------- MODULE MCWifiLifecycle ---------------------------
(* Two networks, forms that bring one or both of them with a right, wrong   *)
(* or empty password, with and without an API key.                          *)
EXTENDS WifiLifecycle

MCNetworks == {"home", "shed"}
Cred(ssid, pass) == [ssid |-> ssid, pass |-> pass]
NoneBuiltIn == <<>>
HomeBuiltIn == <<Cred("home", "right")>>
MCForms ==
  {[creds |-> <<Cred("home", "wrong")>>, setsKey |-> TRUE],
   [creds |-> <<Cred("home", "right")>>, setsKey |-> FALSE],
   [creds |-> <<Cred("shed", "right"), Cred("home", "empty")>>, setsKey |-> TRUE]}
=============================================================================
