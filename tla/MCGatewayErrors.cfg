SPECIFICATION Spec
CONSTANTS
    None = None
    Releases <- MCReleases
    Published <- MCPublished
    Urls <- MCUrls
    Probes <- MCProbes
    Validators = {"etag", "date"}
INVARIANT
    ErrorsNotConfirmed
