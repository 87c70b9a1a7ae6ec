---- MODULE MCRepositoryReview ----
EXTENDS RepositoryReview
CONSTANTS a, b
MCFindings == <<{{a}}, {{a}, {a, b}}>>
====
