----------------------------- MODULE MCSentinel -----------------------------
EXTENDS Sentinel

MCFeeds == <<"news", "trump-code">>
MCFeedOf == [outage |-> "news", tariff |-> "trump-code"]
MCDateOf == [tariff |-> 25]
MCEntries == DOMAIN MCFeedOf
MCLines == [stdout |-> 2, stderr |-> 0]

\* A sentinel with nothing to poll, next to which commands make their calls.
NoFeeds  == <<>>
NoFeedOf == <<>>
NoDateOf == <<>>
MCLong   == [stdout |-> 3, stderr |-> 1]
=============================================================================
