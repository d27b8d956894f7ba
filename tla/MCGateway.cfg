SPECIFICATION Spec
CONSTANTS
    None = None
    Releases <- MCReleases
    Published <- MCPublished
    Urls <- MCUrls
    Probes <- MCProbes
    Validators = {"etag", "date"}
INVARIANTS
    TypeOK
    ContentIsCurrent
    ServesOwnRelease
    PublishedPathServed
    OwnNotFoundDoc
    PreviewsHidden
PROPERTIES
    CheapRevalidation
    SameReleaseSameContent
