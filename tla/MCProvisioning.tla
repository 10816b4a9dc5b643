--------------------------- MODULE MCProvisioning ---------------------------
(***************************************************************************)
(* Small instances of Provisioning for TLC.  Each set of inputs varies what   *)
(* one run is about, and nothing else.                                       *)
(***************************************************************************)
EXTENDS Provisioning

CONSTANTS home, away, oldPassword, newPassword, oldToken, newToken

Ask(domain, transcoding, storage, secret, token) ==
  [domain |-> domain, transcoding |-> transcoding, storage |-> storage,
   password |-> secret, token |-> token]

MCOneInput == {Ask(home, "off", TRUE, oldPassword, oldToken)}
MCDomains == {Ask(d, "off", TRUE, oldPassword, oldToken) : d \in {home, away}}
MCModes == {Ask(home, m, TRUE, oldPassword, oldToken) : m \in {"off", "hardware"}}
MCTokens == {Ask(home, "off", TRUE, oldPassword, t) : t \in {oldToken, newToken}}
\* A new configuration: another domain, mode and password, and storage found.
MCConfigs == {Ask(home, "off", FALSE, oldPassword, oldToken),
              Ask(away, "hardware", TRUE, newPassword, oldToken)}

\* What a purge that stops may leave.
MCRemnants == {{}, {"jellyfin"}, {"seerr"}, {"sonarr", "decypharr"},
               Services \ {"jellyfin"}}
=============================================================================
