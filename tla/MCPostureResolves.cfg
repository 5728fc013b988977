SPECIFICATION MCSpec
CONSTANTS
    NoDomain = "none"
    Sites <- MCSites
    SiteLevels <- MCSiteLevels
    Mails <- MCMails
    MailLevels <- MailFields
    Accounts <- MCAccounts
    AccountLevels <- AccountFields
    Vulnerabilities <- KnownVulnerabilities
    Exploited = {"CVE-3"}
    MaxProducts = 1
    Stops = {2, 8}
    Reviewed = {"SEC-TXT-MISSING", "TLS-EXPIRED", "EMAIL-NO-TLS-RPT", "AWS-S3-PUBLIC-READ"}
    MaxChanges = 1
    MaxScans = 3
INVARIANT
    WhatIsFoundStays
CHECK_DEADLOCK FALSE
