---------------------------- MODULE MCHttpClient ----------------------------
\* A regional office reachable over http and https on one host.
EXTENDS HttpClient, TLC

CONSTANTS sheet, oldSheet, https, http, office

MCUrls == {sheet, oldSheet}
MCOriginOf == (sheet :> https) @@ (oldSheet :> http)
MCHostOf == (https :> office) @@ (http :> office)

\* The office upgrades its old links to https.
UpgradeRedirect == oldSheet :> sheet
=============================================================================
